---- MODULE Spec2Model ----
(***************************************************************************)
(* Incremental merge engine of autogenerateagentsmd (utils.py):            *)
(* parse_agents_sections, merge_agents_content, compile_agents_md.          *)
(*                                                                         *)
(* Text is a sequence of symbols.  A symbol is one of the characters       *)
(* " ", "\n", BT (a backtick), "#", "*", "-", or a word: an opaque run of  *)
(* one or more characters, none of them whitespace or a backtick, not      *)
(* starting with "#", "*" or "-".  str operations are modelled on that     *)
(* sequence as Python performs them on the characters.                     *)
(* The em dash of the title line is the word "U+2014".  Lines of the       *)
(* modelled documents are never indented.                                  *)
(***************************************************************************)
EXTENDS Integers, Sequences, FiniteSets, TLC

VARIABLES
    existing_content,   \* text of the AGENTS.md found on disk, <<>> if none
    sections,           \* the freshly extracted sections (new_sections)
    style,              \* "comprehensive" or "strict"
    repo_name,
    parsed_sections,    \* result of parse_agents_sections
    merged_sections,    \* result of merge_agents_content
    final_output,       \* result of compile_agents_md
    rerendered,         \* compile_agents_md of the re-parsed final_output
    pc,                 \* position of the caller
    runs,               \* number of compile runs so far
    first_content,      \* history: the document before the first run
    new_keys,           \* history: keys of all new sections passed so far
    disk,               \* projects/<folder>/AGENTS.md for every folder
    prev_run,           \* history: per name, what its last run to reach the save wrote
    args,               \* the command line: argparse.Namespace
    environ,            \* os.environ, the answer to input() and what exists on disk
    target,             \* outcome of resolve_repository_target
    model_cfg           \* outcome of resolve_model_config

vars == <<existing_content, sections, style, repo_name, parsed_sections,
          merged_sections, final_output, rerendered, pc, runs, first_content, new_keys,
          disk, prev_run, args, environ, target, model_cfg>>

\* the variables of the command line front end
cli == <<args, environ, target, model_cfg>>

\* their value where the front end is not under study
NoCli ==
    /\ args = [given |-> FALSE]
    /\ environ = [given |-> FALSE]
    /\ target = [outcome |-> "none"]
    /\ model_cfg = [outcome |-> "none"]

-----------------------------------------------------------------------------
(* Python str primitives                                                   *)

\* the backtick character
BT == "backtick"

IsSpace(c) == c \in {" ", "\n"}

\* str.strip(): drop leading and trailing whitespace
Strip(s) ==
    LET idx == {i \in 1..Len(s) : ~IsSpace(s[i])}
    IN  IF idx = {} THEN <<>>
        ELSE SubSeq(s, CHOOSE i \in idx : \A j \in idx : i <= j,
                       CHOOSE i \in idx : \A j \in idx : i >= j)

\* str.lower() on the words that carry upper-case letters
LowerTable ==
    [w \in {"Project", "Overview", "Agent", "Persona", "Tech", "Stack",
            "Architecture", "Code", "Style", "Anti-Patterns", "Restrictions",
            "Database", "State", "Management", "Error", "Handling", "Logging",
            "Testing", "Commands", "Guidelines", "Security", "Compliance",
            "Dependencies", "Environment", "PR", "Git", "Rules",
            "Documentation", "Standards", "Common", "Patterns", "Workflow",
            "SOP", "Few-Shot", "Examples", "Strict", "Lessons", "Learned",
            "(Past", "Failures)", "Repository", "Quirks", "Gotchas",
            "Execution", "Rule", "A", "B", "Notes", "My", "AGENTS.md",
            "TECH", "STACK", "Title", "Sub", "Bold", "Repo"} |->
        CASE w = "Project" -> "project" [] w = "Overview" -> "overview"
          [] w = "Agent" -> "agent" [] w = "Persona" -> "persona"
          [] w = "Tech" -> "tech" [] w = "Stack" -> "stack"
          [] w = "Architecture" -> "architecture"
          [] w = "Code" -> "code" [] w = "Style" -> "style"
          [] w = "Anti-Patterns" -> "anti-patterns"
          [] w = "Restrictions" -> "restrictions"
          [] w = "Database" -> "database" [] w = "State" -> "state"
          [] w = "Management" -> "management"
          [] w = "Error" -> "error" [] w = "Handling" -> "handling"
          [] w = "Logging" -> "logging" [] w = "Testing" -> "testing"
          [] w = "Commands" -> "commands" [] w = "Guidelines" -> "guidelines"
          [] w = "Security" -> "security" [] w = "Compliance" -> "compliance"
          [] w = "Dependencies" -> "dependencies"
          [] w = "Environment" -> "environment"
          [] w = "PR" -> "pr" [] w = "Git" -> "git" [] w = "Rules" -> "rules"
          [] w = "Documentation" -> "documentation"
          [] w = "Standards" -> "standards"
          [] w = "Common" -> "common" [] w = "Patterns" -> "patterns"
          [] w = "Workflow" -> "workflow" [] w = "SOP" -> "sop"
          [] w = "Few-Shot" -> "few-shot" [] w = "Examples" -> "examples"
          [] w = "Strict" -> "strict" [] w = "Lessons" -> "lessons"
          [] w = "Learned" -> "learned" [] w = "(Past" -> "(past"
          [] w = "Failures)" -> "failures)"
          [] w = "Repository" -> "repository" [] w = "Quirks" -> "quirks"
          [] w = "Gotchas" -> "gotchas" [] w = "Execution" -> "execution"
          [] w = "Rule" -> "rule" [] w = "A" -> "a" [] w = "B" -> "b"
          [] w = "Notes" -> "notes" [] w = "My" -> "my"
          [] w = "AGENTS.md" -> "agents.md"
          [] w = "TECH" -> "tech" [] w = "STACK" -> "stack"
          [] w = "Title" -> "title" [] w = "Sub" -> "sub"
          [] w = "Bold" -> "bold" [] w = "Repo" -> "repo"]

Lower(s) ==
    [i \in 1..Len(s) |->
        IF s[i] \in DOMAIN LowerTable THEN LowerTable[s[i]] ELSE s[i]]

\* str.splitlines()
RECURSIVE SplitLines(_)
SplitLines(s) ==
    IF s = <<>> THEN <<>>
    ELSE LET nl == {i \in 1..Len(s) : s[i] = "\n"}
         IN  IF nl = {} THEN <<s>>
             ELSE LET p == CHOOSE i \in nl : \A j \in nl : i <= j
                  IN  <<SubSeq(s, 1, p - 1)>>
                          \o SplitLines(SubSeq(s, p + 1, Len(s)))

\* "\n".join(lines)
RECURSIVE JoinLines(_)
JoinLines(lines) ==
    IF lines = <<>> THEN <<>>
    ELSE IF Len(lines) = 1 THEN lines[1]
    ELSE lines[1] \o <<"\n">> \o JoinLines(Tail(lines))

\* str.count of three backticks: non-overlapping, scanned left to right
RECURSIVE CountFrom(_, _)
CountFrom(s, i) ==
    IF i + 2 > Len(s) THEN 0
    ELSE IF s[i] = BT /\ s[i + 1] = BT /\ s[i + 2] = BT
         THEN 1 + CountFrom(s, i + 3)
         ELSE CountFrom(s, i + 1)

CountFence(s) == CountFrom(s, 1)

\* words joined by single spaces
RECURSIVE T(_)
T(ws) ==
    IF ws = <<>> THEN <<>>
    ELSE IF Len(ws) = 1 THEN <<ws[1]>>
    ELSE <<ws[1], " ">> \o T(Tail(ws))

-----------------------------------------------------------------------------
(* Section schema                                                          *)

AGENTS_SECTION_HEADINGS ==
    << <<T(<<"project_overview">>), T(<<"Project", "Overview">>)>>,
       <<T(<<"agent_persona">>), T(<<"Agent", "Persona">>)>>,
       <<T(<<"tech_stack">>), T(<<"Tech", "Stack">>)>>,
       <<T(<<"architecture">>), T(<<"Architecture">>)>>,
       <<T(<<"code_style">>), T(<<"Code", "Style">>)>>,
       <<T(<<"anti_patterns_and_restrictions">>),
         T(<<"Anti-Patterns", "&", "Restrictions">>)>>,
       <<T(<<"database_and_state">>),
         T(<<"Database", "&", "State", "Management">>)>>,
       <<T(<<"error_handling_and_logging">>),
         T(<<"Error", "Handling", "&", "Logging">>)>>,
       <<T(<<"testing_commands">>), T(<<"Testing", "Commands">>)>>,
       <<T(<<"testing_guidelines">>), T(<<"Testing", "Guidelines">>)>>,
       <<T(<<"security_and_compliance">>),
         T(<<"Security", "&", "Compliance">>)>>,
       <<T(<<"dependencies_and_environment">>),
         T(<<"Dependencies", "&", "Environment">>)>>,
       <<T(<<"pr_and_git_rules">>), T(<<"PR", "&", "Git", "Rules">>)>>,
       <<T(<<"documentation_standards">>),
         T(<<"Documentation", "Standards">>)>>,
       <<T(<<"common_patterns">>), T(<<"Common", "Patterns">>)>>,
       <<T(<<"agent_workflow">>), T(<<"Agent", "Workflow", "/", "SOP">>)>>,
       <<T(<<"few_shot_examples">>), T(<<"Few-Shot", "Examples">>)>> >>

STRICT_AGENTS_SECTION_HEADINGS ==
    << <<T(<<"code_style">>), T(<<"Code", "Style", "&", "Strict", "Rules">>)>>,
       <<T(<<"anti_patterns_and_restrictions">>),
         T(<<"Anti-Patterns", "&", "Restrictions">>)>>,
       <<T(<<"security_and_compliance">>),
         T(<<"Security", "&", "Compliance">>)>>,
       <<T(<<"lessons_learned">>),
         T(<<"Lessons", "Learned", "(Past", "Failures)">>)>>,
       <<T(<<"repo_quirks">>), T(<<"Repository", "Quirks", "&", "Gotchas">>)>>,
       <<T(<<"execution_commands">>), T(<<"Execution", "Commands">>)>> >>

-----------------------------------------------------------------------------
(* dict[str, str] with insertion order: a sequence of <<key, body>>        *)

Keys(d) == {d[i][1] : i \in DOMAIN d}

\* d.get(k, default)
Get(d, k, default) ==
    IF k \in Keys(d) THEN d[CHOOSE i \in DOMAIN d : d[i][1] = k][2]
    ELSE default

\* mutant: a present key keeps its first value
PutKeepFirst(d, k, v) ==
    IF k \in Keys(d) THEN d ELSE Append(d, <<k, v>>)

\* d[k] = v: a present key keeps its position, a new key goes last
Put(d, k, v) ==
    IF k \in Keys(d)
    THEN [i \in DOMAIN d |-> IF d[i][1] = k THEN <<k, v>> ELSE d[i]]
    ELSE Append(d, <<k, v>>)

-----------------------------------------------------------------------------
(* MarkdownIt().parse(content): the block rules of markdown-it's           *)
(* "commonmark" preset that can produce or hide an h2 heading_open token,  *)
(* on lines over the symbols above: code, fence, hr, list, heading,        *)
(* lheading, paragraph.                                                    *)

Drop(s, n) == SubSeq(s, n + 1, Len(s))

\* number of leading symbols of s equal to c
RunLen(s, c) ==
    IF \A i \in 1..Len(s) : s[i] = c THEN Len(s)
    ELSE (CHOOSE i \in 1..Len(s) : s[i] # c /\ \A j \in 1..(i - 1) : s[j] = c) - 1

Indent(L) == RunLen(L, " ")

IsBlank(L) == Indent(L) = Len(L)

\* rule "fence": an opening fence of n >= 3 backticks whose info string has
\* no backtick; 0 when L opens no fence
FenceOpenLen(L) ==
    LET r == Drop(L, Indent(L))
        n == RunLen(r, BT)
    IN  IF Indent(L) <= 3 /\ n >= 3 /\ \A i \in (n + 1)..Len(r) : r[i] # BT
        THEN n ELSE 0

\* rule "fence": L closes a fence opened with n backticks
IsFenceClose(L, n) ==
    LET r == Drop(L, Indent(L))
    IN  /\ Indent(L) <= 3
        /\ RunLen(r, BT) >= n
        /\ \A i \in (RunLen(r, BT) + 1)..Len(r) : r[i] = " "

\* mutant: a heading of any level counts as a second-level heading
ATXLevelFlat(L) ==
    LET r == Drop(L, Indent(L))
        n == RunLen(r, "#")
    IN  IF Indent(L) <= 3 /\ n >= 1 /\ n <= 6 /\ (Len(r) = n \/ r[n + 1] = " ")
        THEN 2 ELSE 0

\* rule "heading": level of an ATX heading, 0 when L is none
ATXLevel(L) ==
    LET r == Drop(L, Indent(L))
        n == RunLen(r, "#")
    IN  IF Indent(L) <= 3 /\ n >= 1 /\ n <= 6 /\ (Len(r) = n \/ r[n + 1] = " ")
        THEN n ELSE 0

\* s without its trailing symbols equal to c
RECURSIVE DropTrailing(_, _)
DropTrailing(s, c) ==
    IF s # <<>> /\ s[Len(s)] = c THEN DropTrailing(SubSeq(s, 1, Len(s) - 1), c)
    ELSE s

\* rule "heading": content of the inline token, closing #s removed
ATXContent(L) ==
    LET r    == Drop(L, Indent(L))
        body == DropTrailing(Drop(r, RunLen(r, "#")), " ")
        cut  == DropTrailing(body, "#")
    IN  Strip(IF cut # <<>> /\ cut[Len(cut)] = " " THEN cut ELSE body)

\* rule "hr": three or more of one marker, spaces allowed between
IsHr(L) ==
    LET r == Drop(L, Indent(L))
    IN  /\ Indent(L) <= 3
        /\ r # <<>>
        /\ r[1] \in {"*", "-"}
        /\ \A i \in 1..Len(r) : r[i] \in {r[1], " "}
        /\ Cardinality({i \in 1..Len(r) : r[i] = r[1]}) >= 3

\* rule "lheading": an underline of dashes makes the paragraph above an h2
IsSetextDash(L) ==
    LET r == Drop(L, Indent(L))
    IN  /\ Indent(L) <= 3
        /\ r # <<>>
        /\ r[1] = "-"
        /\ \A i \in (RunLen(r, "-") + 1)..Len(r) : r[i] = " "

\* rule "list": a bullet marker followed by a space or the end of the line
IsBullet(L) ==
    LET r == Drop(L, Indent(L))
    IN  /\ Indent(L) <= 3
        /\ r # <<>>
        /\ r[1] \in {"*", "-"}
        /\ (Len(r) = 1 \/ r[2] = " ")

\* rule "list": the first line of the item's content; five or more spaces
\* after the marker leave all but one of them to the content
BulletContent(L) ==
    LET r == Drop(Drop(L, Indent(L)), 1)
    IN  IF IsBlank(r) THEN <<>>
        ELSE IF Indent(r) >= 5 THEN Drop(r, 1)
        ELSE Drop(r, Indent(r))

\* the block that starts at line L when no paragraph is open: rules in the
\* order code, fence, hr, list, heading, paragraph.  A list item is parsed
\* through to the block its first line starts: a paragraph in an item
\* ("lazy") continues over unindented text but takes no setext underline; a
\* fence in an item ends with the item.
RECURSIVE Block(_)
Block(L) ==
    IF IsBlank(L) THEN [kind |-> "blank", fence |-> 0, text |-> <<>>]
    ELSE IF Indent(L) >= 4 THEN [kind |-> "code", fence |-> 0, text |-> <<>>]
    ELSE IF FenceOpenLen(L) > 0
         THEN [kind |-> "fence", fence |-> FenceOpenLen(L), text |-> <<>>]
    ELSE IF IsHr(L) THEN [kind |-> "hr", fence |-> 0, text |-> <<>>]
    ELSE IF IsBullet(L)
         THEN LET inner == Block(BulletContent(L))
              IN  IF inner.kind \in {"para", "lazy"}
                  THEN [kind |-> "lazy", fence |-> 0, text |-> <<>>]
                  ELSE IF inner.kind = "h2" THEN inner
                  ELSE [kind |-> "item", fence |-> 0, text |-> <<>>]
    ELSE IF ATXLevel(L) = 2
         THEN [kind |-> "h2", fence |-> 0, text |-> ATXContent(L)]
    ELSE IF ATXLevel(L) > 0 THEN [kind |-> "h", fence |-> 0, text |-> <<>>]
    ELSE [kind |-> "para", fence |-> 0, text |-> <<>>]

\* L ends an open paragraph (rules with alt "paragraph"); an empty list item
\* cannot interrupt a top-level paragraph
Terminates(L, top) ==
    \/ FenceOpenLen(L) > 0
    \/ IsHr(L)
    \/ ATXLevel(L) > 0
    \/ IsBullet(L) /\ (~top \/ BulletContent(L) # <<>>)

\* L continues the open paragraph
Continues(L, para) ==
    /\ para # "none"
    /\ ~IsBlank(L)
    /\ IF para = "para"
       THEN Indent(L) >= 4 \/ (~IsSetextDash(L) /\ ~Terminates(L, TRUE))
       ELSE ~Terminates(L, FALSE)

\* mutant: headings are detected line by line without regard to fences
RECURSIVE MdScanNoFence(_, _, _, _, _, _)
MdScanNoFence(lines, i, fence, para, pstart, acc) ==
    IF i > Len(lines) THEN acc
    ELSE IF ATXLevel(lines[i]) = 2
         THEN MdScanNoFence(lines, i + 1, 0, "none", 0,
                            Append(acc, [map0 |-> i - 1, map1 |-> i,
                                         content |-> ATXContent(lines[i])]))
         ELSE MdScanNoFence(lines, i + 1, 0, "none", 0, acc)

\* The h2 heading_open tokens of the document, in order, each with
\* token.map (0-based [first, last) lines) and the content of the inline
\* token after it.  fence: length of the open fence or 0; para: "none",
\* "para" (top-level paragraph begun at line pstart) or "lazy".
RECURSIVE MdScan(_, _, _, _, _, _)
MdScan(lines, i, fence, para, pstart, acc) ==
    IF i > Len(lines) THEN acc
    ELSE LET L == lines[i]
             b == Block(L)
         IN  IF fence > 0
             THEN MdScan(lines, i + 1, IF IsFenceClose(L, fence) THEN 0 ELSE fence,
                         "none", 0, acc)
             ELSE IF Continues(L, para)
             THEN MdScan(lines, i + 1, 0, para, pstart, acc)
             ELSE IF para = "para" /\ ~IsBlank(L) /\ IsSetextDash(L)
             THEN MdScan(lines, i + 1, 0, "none", 0,
                         Append(acc, [map0 |-> pstart - 1, map1 |-> i,
                                      content |-> Strip(JoinLines(
                                          SubSeq(lines, pstart, i - 1)))]))
             ELSE IF b.kind = "fence"
             THEN MdScan(lines, i + 1, b.fence, "none", 0, acc)
             ELSE IF b.kind = "h2"
             THEN MdScan(lines, i + 1, 0, "none", 0,
                         Append(acc, [map0 |-> i - 1, map1 |-> i,
                                      content |-> b.text]))
             ELSE IF b.kind = "para"
             THEN MdScan(lines, i + 1, 0, "para", i, acc)
             ELSE IF b.kind = "lazy"
             THEN MdScan(lines, i + 1, 0, "lazy", 0, acc)
             ELSE MdScan(lines, i + 1, 0, "none", 0, acc)

MdH2Tokens(content) == MdScan(SplitLines(content), 1, 0, "none", 0, <<>>)

-----------------------------------------------------------------------------
(* parse_agents_sections                                                   *)

\* lines[a:b] of a Python list, a and b 0-based
Slice(lines, a, b) == SubSeq(lines, a + 1, b)

\* id_to_key.get(h, default): the strict entries are written after the
\* comprehensive ones and overwrite them
IdToKey(h, default) ==
    LET st == {i \in DOMAIN STRICT_AGENTS_SECTION_HEADINGS :
                  Lower(STRICT_AGENTS_SECTION_HEADINGS[i][2]) = h}
        co == {i \in DOMAIN AGENTS_SECTION_HEADINGS :
                  Lower(AGENTS_SECTION_HEADINGS[i][2]) = h}
    IN  IF st # {}
        THEN STRICT_AGENTS_SECTION_HEADINGS[CHOOSE i \in st : \A j \in st : i >= j][1]
        ELSE IF co # {}
        THEN AGENTS_SECTION_HEADINGS[CHOOSE i \in co : \A j \in co : i >= j][1]
        ELSE default

\* mutant: a body starts at its heading line instead of the line after it
RECURSIVE ParseLoopFromHeading(_, _, _, _, _, _)
ParseLoopFromHeading(lines, toks, j, secs, current_key, start_line) ==
    IF j > Len(toks)
    THEN IF current_key # <<>>
         THEN Put(secs, current_key,
                  Strip(JoinLines(Slice(lines, start_line, Len(lines)))))
         ELSE secs
    ELSE LET token        == toks[j]
             saved        == IF current_key # <<>>
                             THEN Put(secs, current_key,
                                      Strip(JoinLines(
                                          Slice(lines, start_line, token.map0))))
                             ELSE secs
             heading_text == Strip(token.content)
         IN  ParseLoopFromHeading(lines, toks, j + 1, saved,
                       IdToKey(Lower(heading_text), heading_text), token.map0)

\* mutant: a body runs through the line of the next heading
RECURSIVE ParseLoopThroughHeading(_, _, _, _, _, _)
ParseLoopThroughHeading(lines, toks, j, secs, current_key, start_line) ==
    IF j > Len(toks)
    THEN IF current_key # <<>>
         THEN Put(secs, current_key,
                  Strip(JoinLines(Slice(lines, start_line, Len(lines)))))
         ELSE secs
    ELSE LET token        == toks[j]
             saved        == IF current_key # <<>>
                             THEN Put(secs, current_key,
                                      Strip(JoinLines(
                                          Slice(lines, start_line, token.map1))))
                             ELSE secs
             heading_text == Strip(token.content)
         IN  ParseLoopThroughHeading(lines, toks, j + 1, saved,
                       IdToKey(Lower(heading_text), heading_text), token.map1)

\* the loop over the tokens; current_key None is the empty text (both falsy)
RECURSIVE ParseLoop(_, _, _, _, _, _)
ParseLoop(lines, toks, j, secs, current_key, start_line) ==
    IF j > Len(toks)
    THEN IF current_key # <<>>
         THEN Put(secs, current_key,
                  Strip(JoinLines(Slice(lines, start_line, Len(lines)))))
         ELSE secs
    ELSE LET token        == toks[j]
             saved        == IF current_key # <<>>
                             THEN Put(secs, current_key,
                                      Strip(JoinLines(
                                          Slice(lines, start_line, token.map0))))
                             ELSE secs
             heading_text == Strip(token.content)
         IN  ParseLoop(lines, toks, j + 1, saved,
                       IdToKey(Lower(heading_text), heading_text), token.map1)

parse_agents_sections(content) ==
    ParseLoop(SplitLines(content), MdH2Tokens(content), 1, <<>>, <<>>, 0)

-----------------------------------------------------------------------------
(* merge_agents_content                                                    *)

\* re.sub(r'\s+', ' ', s): every run of whitespace becomes one space
CollapseSpaces(s) ==
    LET keep == {i \in 1..Len(s) : ~IsSpace(s[i]) \/ i = 1 \/ ~IsSpace(s[i - 1])}
        F[i \in 0..Len(s)] ==
            IF i = 0 THEN <<>>
            ELSE IF i \in keep
                 THEN Append(F[i - 1], IF IsSpace(s[i]) THEN " " ELSE s[i])
                 ELSE F[i - 1]
    IN  F[Len(s)]

\* mutant: compares the lines as written, trimmed only
normalize_line_trim_only(line) == Strip(line)

normalize_line(line) == CollapseSpaces(Lower(Strip(line)))

\* stripped.startswith(('*', '-', '1.', bullet glyph))
IsListItem(stripped) == stripped # <<>> /\ stripped[1] \in {"*", "-", "1."}

\* mutant: only list items are deduplicated, other lines are always appended
RECURSIVE MergeLinesListOnly(_, _, _, _)
MergeLinesListOnly(new_lines_raw, j, merged_lines, existing_lines_map) ==
    IF j > Len(new_lines_raw) THEN merged_lines
    ELSE LET line       == new_lines_raw[j]
             normalized == CollapseSpaces(Lower(Strip(line)))
         IN  IF IsListItem(Strip(line)) /\ normalized \in existing_lines_map
             THEN MergeLinesListOnly(new_lines_raw, j + 1, merged_lines,
                                     existing_lines_map)
             ELSE MergeLinesListOnly(new_lines_raw, j + 1,
                                     Append(merged_lines, line),
                                     existing_lines_map \cup {normalized})

\* the loop over new_lines_raw without the update of existing_lines_map
RECURSIVE MergeLinesForgetful(_, _, _, _)
MergeLinesForgetful(new_lines_raw, j, merged_lines, existing_lines_map) ==
    IF j > Len(new_lines_raw) THEN merged_lines
    ELSE IF Strip(new_lines_raw[j]) # <<>>
            /\ CollapseSpaces(Lower(Strip(new_lines_raw[j]))) \in existing_lines_map
         THEN MergeLinesForgetful(new_lines_raw, j + 1, merged_lines,
                                  existing_lines_map)
         ELSE MergeLinesForgetful(new_lines_raw, j + 1,
                                  Append(merged_lines, new_lines_raw[j]),
                                  existing_lines_map)

\* the loop over new_lines_raw; existing_lines_map is read only for key
\* membership, so it is the set of its keys
RECURSIVE MergeLines(_, _, _, _)
MergeLines(new_lines_raw, j, merged_lines, existing_lines_map) ==
    IF j > Len(new_lines_raw) THEN merged_lines
    ELSE LET line       == new_lines_raw[j]
             stripped   == Strip(line)
             normalized == normalize_line(line)
         IN  IF stripped = <<>>
             THEN MergeLines(new_lines_raw, j + 1, Append(merged_lines, line),
                             existing_lines_map)
             ELSE IF IsListItem(stripped)
             THEN IF normalized \notin existing_lines_map
                  THEN MergeLines(new_lines_raw, j + 1, Append(merged_lines, line),
                                  existing_lines_map \cup {normalized})
                  ELSE MergeLines(new_lines_raw, j + 1, merged_lines,
                                  existing_lines_map)
             ELSE IF normalized \notin existing_lines_map
             THEN MergeLines(new_lines_raw, j + 1, Append(merged_lines, line),
                             existing_lines_map \cup {normalized})
             ELSE MergeLines(new_lines_raw, j + 1, merged_lines,
                             existing_lines_map)

\* mutant: the appended lines come before the existing ones
MergeBodyNewFirst(existing_body, new_body) ==
    LET ex_lines == SplitLines(existing_body)
        existing_lines_map ==
            {normalize_line(ex_lines[i]) :
                i \in {k \in DOMAIN ex_lines : Strip(ex_lines[k]) # <<>>}}
    IN  Strip(JoinLines(MergeLines(SplitLines(new_body), 1, <<>>,
                                   existing_lines_map) \o ex_lines))

\* the merge of one section body present in both maps
MergeBody(existing_body, new_body) ==
    LET ex_lines == SplitLines(existing_body)
        existing_lines_map ==
            {normalize_line(ex_lines[i]) :
                i \in {k \in DOMAIN ex_lines : Strip(ex_lines[k]) # <<>>}}
    IN  Strip(JoinLines(MergeLines(SplitLines(new_body), 1, ex_lines,
                                   existing_lines_map)))

\* mutant: the body of a key in both maps is replaced by the new body
RECURSIVE MergeLoopReplace(_, _, _)
MergeLoopReplace(merged, new_sections, j) ==
    IF j > Len(new_sections) THEN merged
    ELSE LET key      == new_sections[j][1]
             new_body == new_sections[j][2]
         IN  IF Strip(new_body) = <<>>
             THEN MergeLoopReplace(merged, new_sections, j + 1)
             ELSE MergeLoopReplace(Put(merged, key, Strip(new_body)),
                                   new_sections, j + 1)

\* mutant: a blank new body is not skipped
RECURSIVE MergeLoopNoSkip(_, _, _)
MergeLoopNoSkip(merged, new_sections, j) ==
    IF j > Len(new_sections) THEN merged
    ELSE LET key      == new_sections[j][1]
             new_body == new_sections[j][2]
         IN  IF key \in Keys(merged)
             THEN MergeLoopNoSkip(Put(merged, key,
                                      MergeBody(Get(merged, key, <<>>), new_body)),
                                  new_sections, j + 1)
             ELSE MergeLoopNoSkip(Put(merged, key, Strip(new_body)),
                                  new_sections, j + 1)

RECURSIVE MergeLoop(_, _, _)
MergeLoop(merged, new_sections, j) ==
    IF j > Len(new_sections) THEN merged
    ELSE LET key      == new_sections[j][1]
             new_body == new_sections[j][2]
         IN  IF Strip(new_body) = <<>>
             THEN MergeLoop(merged, new_sections, j + 1)
             ELSE IF key \in Keys(merged)
             THEN MergeLoop(Put(merged, key,
                                MergeBody(Get(merged, key, <<>>), new_body)),
                            new_sections, j + 1)
             ELSE MergeLoop(Put(merged, key, Strip(new_body)),
                            new_sections, j + 1)

\* mutant: the result starts empty instead of as a copy of the existing map
merge_agents_content_no_copy(existing_sections, new_sections) ==
    MergeLoop(<<>>, new_sections, 1)

merge_agents_content(existing_sections, new_sections) ==
    MergeLoop(existing_sections, new_sections, 1)

-----------------------------------------------------------------------------
(* compile_agents_md                                                       *)

TitleLine(name) == <<"#", " ", "AGENTS.md", " ", "U+2014", " ">> \o name

\* f"## {heading}\n\n{content}\n"
Part(heading, content) ==
    <<"#", "#", " ">> \o heading \o <<"\n", "\n">> \o content \o <<"\n">>

Headings(st) ==
    IF st = "strict" THEN STRICT_AGENTS_SECTION_HEADINGS
    ELSE AGENTS_SECTION_HEADINGS

\* mutant: a heading is emitted for every entry of the schema
RECURSIVE SchemaPartsAlways(_, _, _)
SchemaPartsAlways(processed_sections, headings, j) ==
    IF j > Len(headings) THEN <<>>
    ELSE <<Part(headings[j][2],
                Strip(Get(processed_sections, headings[j][1], <<>>)))>>
             \o SchemaPartsAlways(processed_sections, headings, j + 1)

\* mutant: the sections are emitted in the order of the mapping
RECURSIVE SchemaPartsInputOrder(_, _, _)
SchemaPartsInputOrder(processed_sections, headings, j) ==
    IF j > Len(processed_sections) THEN <<>>
    ELSE LET key == processed_sections[j][1]
             hs  == {i \in DOMAIN headings : headings[i][1] = key}
             content == Strip(processed_sections[j][2])
         IN  (IF hs # {} /\ content # <<>>
              THEN <<Part(headings[CHOOSE i \in hs : TRUE][2], content)>>
              ELSE <<>>)
                 \o SchemaPartsInputOrder(processed_sections, headings, j + 1)

\* first loop: the schema's sections, in the schema's order
RECURSIVE SchemaParts(_, _, _)
SchemaParts(processed_sections, headings, j) ==
    IF j > Len(headings) THEN <<>>
    ELSE LET content == Strip(Get(processed_sections, headings[j][1], <<>>))
         IN  (IF content # <<>> THEN <<Part(headings[j][2], content)>> ELSE <<>>)
                 \o SchemaParts(processed_sections, headings, j + 1)

\* second loop: every other section, in the mapping's order
RECURSIVE ExtraParts(_, _, _)
ExtraParts(processed_sections, seen_keys, j) ==
    IF j > Len(processed_sections) THEN <<>>
    ELSE LET key     == processed_sections[j][1]
             content == processed_sections[j][2]
         IN  (IF key \notin seen_keys /\ Strip(content) # <<>>
              THEN <<Part(key, content)>> ELSE <<>>)
                 \o ExtraParts(processed_sections, seen_keys, j + 1)

\* mutant: no fence safety check
FenceSafetyNone(out) == out

\* final fence safety check
FenceSafety(out) ==
    IF CountFence(out) % 2 # 0 THEN out \o <<"\n", BT, BT, BT>> ELSE out

compile_agents_md(secs, name, st, existing) ==
    LET processed_sections ==
            IF existing # <<>>
            THEN merge_agents_content(parse_agents_sections(existing), secs)
            ELSE secs
        headings  == Headings(st)
        seen_keys == {headings[i][1] : i \in DOMAIN headings}
        parts     == <<TitleLine(name) \o <<"\n">> >>
                         \o SchemaParts(processed_sections, headings, 1)
                         \o ExtraParts(processed_sections, seen_keys, 1)
    IN  FenceSafety(JoinLines(parts))

-----------------------------------------------------------------------------
(* Inputs                                                                  *)

MaxBodyLines == 2
MaxDocLines == 4
MaxRuns == 2

\* repository names
RepoNames == {<<"demo">>, <<"My", " ", "Repo">>}

\* repo_name.lower().replace(' ', '-')
FolderName(name) ==
    [i \in DOMAIN name |-> IF Lower(name)[i] = " " THEN "-" ELSE Lower(name)[i]]

Folders == {FolderName(n) : n \in RepoNames}

\* no AGENTS.md in any folder
NoDisk == [f \in Folders |-> [exists |-> FALSE, text |-> <<>>]]

\* no run of main has finished
NoRun == [n \in RepoNames |-> [saved |-> FALSE, text |-> <<>>, output |-> <<>>]]

K(w) == <<w>>

H2(ws) == <<"#", "#", " ">> \o T(ws)
Fence3 == <<BT, BT, BT>>
Fence4 == <<BT, BT, BT, BT>>
\* a line of text with a fence marker in it
InlineFence == <<"wrap", " ", "code", " ", "in", " ", BT, BT, BT>>
RuleA == <<"*", " ", "Rule", " ", "A">>
RuleB == <<"*", " ", "Rule", " ", "B">>
\* Rule A again, formatted differently
RuleA2 == <<"*", " ", " ", "rule", " ", "a">>
Prose == T(<<"use", "type", "hints">>)
Blank == <<>>

\* all sequences over S of length at most n
RECURSIVE SeqsUpTo(_, _)
SeqsUpTo(S, n) ==
    IF n = 0 THEN {<<>>}
    ELSE LET shorter == SeqsUpTo(S, n - 1)
         IN  shorter \cup {Append(q, x) : q \in shorter, x \in S}

\* section bodies of at most MaxBodyLines lines
BodyLines == {RuleA, RuleA2, RuleB, Prose, Blank, Fence3}

Bodies == {JoinLines(q) : q \in SeqsUpTo(BodyLines, MaxBodyLines)}

\* existing bodies, trimmed as the parser returns them
ExistingBodyLines == {RuleA, RuleA2, Prose, Blank, Fence3}

TrimmedBodies ==
    {Strip(JoinLines(q)) : q \in SeqsUpTo(ExistingBodyLines, MaxBodyLines)}

MyNotes == T(<<"My", "Notes">>)

\* existing maps: a schema section and an operator's own section
\* fenced code blocks: the one of test_merge_with_code_blocks, and new ones
\* with and without a language after the opening fence
FencePy == <<BT, BT, BT, "python">>
ImportOs == <<"import", " ", "os">>
ExistingBlockBodies == {JoinLines(<<FencePy, ImportOs, Fence3>>)}
NewBlockBodies ==
    {JoinLines(<<Fence3, Prose, Fence3>>),
     JoinLines(<<FencePy, Prose, Fence3>>),
     JoinLines(<<FencePy, ImportOs, Fence3, RuleB>>)}

ExistingMaps ==
    {<< <<K("code_style"), e>>, <<MyNotes, Prose>> >> :
        e \in TrimmedBodies \cup ExistingBlockBodies}

\* new maps: for the same key, for another key, for both
NewMaps ==
    {<< <<K("code_style"), n>> >> : n \in Bodies}
        \cup {<< <<K("lessons_learned"), RuleB>>, <<K("code_style"), n>> >> :
                 n \in Bodies}
        \cup {<< <<K("lessons_learned"), n>> >> :
                 n \in {RuleB, Blank, <<" ">>, JoinLines(<<Blank, RuleB, RuleB>>)}}
        \cup {<< <<K("code_style"), <<" ">> >> >>}
        \cup {<< <<K("code_style"), n>> >> : n \in NewBlockBodies}

-----------------------------------------------------------------------------
(* merge_agents_content on its own                                         *)

InitMerge ==
    /\ parsed_sections \in ExistingMaps
    /\ sections \in NewMaps
    /\ merged_sections = <<>>
    /\ existing_content = <<>>
    /\ style = "comprehensive"
    /\ repo_name = <<"demo">>
    /\ final_output = <<>>
    /\ rerendered = <<>>
    /\ pc = "ready"
    /\ runs = 0
    /\ first_content = <<>>
    /\ new_keys = {}
    /\ disk = NoDisk
    /\ prev_run = NoRun
    /\ NoCli

Merge ==
    /\ pc = "ready"
    /\ merged_sections' = merge_agents_content(parsed_sections, sections)
    /\ pc' = "merged"
    /\ UNCHANGED <<existing_content, sections, style, repo_name,
                   parsed_sections, final_output, rerendered, runs,
                   first_content, new_keys, disk, prev_run, cli>>

NextMerge == Merge

SpecMerge == InitMerge /\ [][NextMerge]_vars

\* the non-blank lines of a body
NonBlankLines(body) ==
    LET ls == SplitLines(body)
    IN  {ls[i] : i \in {k \in DOMAIN ls : Strip(ls[k]) # <<>>}}

\* the normalized form of a line as the merge contract words it: trimmed,
\* lower-cased, every run of whitespace one space
RECURSIVE SingleSpaced(_)
SingleSpaced(s) ==
    IF s = <<>> THEN <<>>
    ELSE IF IsSpace(s[1])
         THEN IF Len(s) > 1 /\ IsSpace(s[2]) THEN SingleSpaced(Tail(s))
              ELSE <<" ">> \o SingleSpaced(Tail(s))
         ELSE <<s[1]>> \o SingleSpaced(Tail(s))

NormalForm(line) == Lower(SingleSpaced(Strip(line)))

\* number of non-blank lines of body whose normalized form is f
CountForm(body, f) ==
    LET ls == SplitLines(body)
    IN  Cardinality({i \in DOMAIN ls :
                        Strip(ls[i]) # <<>> /\ NormalForm(ls[i]) = f})

\* number of lines of body equal to line
CountLine(body, line) ==
    LET ls == SplitLines(body)
    IN  Cardinality({i \in DOMAIN ls : ls[i] = line})

BothKeys == Keys(parsed_sections) \cap Keys(sections)

\* C4: for a key in both maps, every normalized form that occurs in the
\* existing body occurs in the merged body exactly as often as in the
\* existing body: a new line whose normalized form is already there is not
\* appended.  Existing "* Rule A" with new "* Rule A", "* Rule B" gives
\* "* Rule A", "* Rule B".
LineDedup ==
    pc = "merged" =>
        /\ \A k \in BothKeys :
              \A l \in NonBlankLines(Get(parsed_sections, k, <<>>)) :
                  CountForm(Get(merged_sections, k, <<>>), NormalForm(l))
                      = CountForm(Get(parsed_sections, k, <<>>), NormalForm(l))
        /\ (/\ Get(parsed_sections, K("code_style"), <<>>) = RuleA
            /\ sections = << <<K("code_style"), JoinLines(<<RuleA, RuleB>>)>> >>)
              => Get(merged_sections, K("code_style"), <<>>)
                     = JoinLines(<<RuleA, RuleB>>)

LineDedupWitness ==
    /\ pc = "merged"
    /\ Get(parsed_sections, K("code_style"), <<>>) = JoinLines(<<RuleA, Prose>>)
    /\ sections = << <<K("code_style"), JoinLines(<<RuleA2, RuleB>>)>> >>
    /\ Get(merged_sections, K("code_style"), <<>>)
           = JoinLines(<<RuleA, Prose, RuleB>>)

\* C5: merging a body with itself gives a body with the same multiset of
\* non-blank lines.
DedupIdempotent ==
    pc = "merged" =>
        \A k \in BothKeys :
            Get(parsed_sections, k, <<>>) = Get(sections, k, <<>>) =>
                /\ NonBlankLines(Get(merged_sections, k, <<>>))
                       = NonBlankLines(Get(parsed_sections, k, <<>>))
                /\ \A l \in NonBlankLines(Get(parsed_sections, k, <<>>)) :
                       CountLine(Get(merged_sections, k, <<>>), l)
                           = CountLine(Get(parsed_sections, k, <<>>), l)

DedupIdempotentWitness ==
    /\ pc = "merged"
    /\ Get(parsed_sections, K("code_style"), <<>>) = JoinLines(<<RuleA, Prose>>)
    /\ Get(sections, K("code_style"), <<>>) = JoinLines(<<RuleA, Prose>>)
    /\ Get(merged_sections, K("code_style"), <<>>) = JoinLines(<<RuleA, Prose>>)

\* C6: a key that is only in the existing map is in the merged map with
\* exactly its existing body.
ExistingOnlyUntouched ==
    pc = "merged" =>
        \A k \in Keys(parsed_sections) \ Keys(sections) :
            /\ k \in Keys(merged_sections)
            /\ Get(merged_sections, k, <<>>) = Get(parsed_sections, k, <<>>)

ExistingOnlyUntouchedWitness ==
    /\ pc = "merged"
    /\ K("code_style") \notin Keys(sections)
    /\ Get(sections, K("lessons_learned"), <<>>) = RuleB
    /\ Get(merged_sections, K("lessons_learned"), <<>>) = RuleB
    /\ Get(merged_sections, K("code_style"), <<>>) = JoinLines(<<RuleA, Fence3>>)
    /\ Get(merged_sections, MyNotes, <<>>) = Prose

\* the non-blank lines of lines, in order
NonBlankSeq(lines) == SelectSeq(lines, LAMBDA l : Strip(l) # <<>>)

\* the non-blank lines of new_lines that the merge contract appends: those
\* whose normalized form is not in seen, each form once
RECURSIVE AppendedLines(_, _)
AppendedLines(new_lines, seen) ==
    IF new_lines = <<>> THEN <<>>
    ELSE IF Strip(new_lines[1]) = <<>> \/ NormalForm(new_lines[1]) \in seen
         THEN AppendedLines(Tail(new_lines), seen)
         ELSE <<new_lines[1]>>
                  \o AppendedLines(Tail(new_lines),
                                   seen \cup {NormalForm(new_lines[1])})

\* C15: for a key in both maps (the new body not blank), the merged body
\* is the lines of the existing body, in their order and as written,
\* followed by the appended lines of the new body in the new body's order,
\* without blank lines around it.
MergedBodyLayout ==
    pc = "merged" =>
        \A k \in BothKeys :
            Strip(Get(sections, k, <<>>)) # <<>> =>
                \A ex \in {SplitLines(Get(parsed_sections, k, <<>>))} :
                \A mg \in {SplitLines(Get(merged_sections, k, <<>>))} :
                    /\ Len(mg) >= Len(ex)
                    /\ SubSeq(mg, 1, Len(ex)) = ex
                    /\ NonBlankSeq(SubSeq(mg, Len(ex) + 1, Len(mg)))
                           = AppendedLines(SplitLines(Get(sections, k, <<>>)),
                                           {NormalForm(ex[i]) : i \in
                                               {n \in DOMAIN ex : Strip(ex[n]) # <<>>}})
                    /\ Strip(Get(merged_sections, k, <<>>))
                           = Get(merged_sections, k, <<>>)

MergedBodyLayoutWitness ==
    /\ pc = "merged"
    /\ Get(parsed_sections, K("code_style"), <<>>) = JoinLines(<<Prose, RuleA>>)
    /\ Get(sections, K("code_style"), <<>>) = JoinLines(<<RuleB, RuleA2>>)
    /\ Get(merged_sections, K("code_style"), <<>>)
           = JoinLines(<<Prose, RuleA, RuleB>>)

\* C16 as stated: every key of the existing map or of the new map has an
\* entry in the merged map: the line-merge of the two bodies when the key is
\* in both, the copy of the only body when it is in one.
MergedCoversBoth ==
    pc = "merged" =>
        \A k \in Keys(parsed_sections) \cup Keys(sections) :
            /\ k \in Keys(merged_sections)
            /\ Get(merged_sections, k, <<>>) =
                  IF k \in BothKeys
                  THEN MergeBody(Get(parsed_sections, k, <<>>),
                                 Get(sections, k, <<>>))
                  ELSE IF k \in Keys(parsed_sections)
                  THEN Get(parsed_sections, k, <<>>)
                  ELSE Get(sections, k, <<>>)

\* C16 as amended: every key of the existing map, and every key of the new
\* map whose body is not blank, has an entry in the merged map, and the
\* merged map has no other key; the entry is the line-merge when the key is
\* in both maps and the new body is not blank, the existing body when the
\* key has no new body or a blank one, the trimmed new body when the key is
\* only in the new map.
MergedCoversNonBlank ==
    pc = "merged" =>
        /\ Keys(merged_sections) =
               Keys(parsed_sections)
                   \cup {k \in Keys(sections) : Strip(Get(sections, k, <<>>)) # <<>>}
        /\ \A k \in Keys(merged_sections) :
              Get(merged_sections, k, <<>>) =
                  IF k \in Keys(sections) /\ Strip(Get(sections, k, <<>>)) # <<>>
                  THEN IF k \in Keys(parsed_sections)
                       THEN MergeBody(Get(parsed_sections, k, <<>>),
                                      Get(sections, k, <<>>))
                       ELSE Strip(Get(sections, k, <<>>))
                  ELSE Get(parsed_sections, k, <<>>)

MergedCoversWitness ==
    /\ pc = "merged"
    /\ sections = << <<K("lessons_learned"), RuleB>>,
                     <<K("code_style"), JoinLines(<<RuleB, Blank>>)>> >>
    /\ Get(parsed_sections, K("code_style"), <<>>) = RuleA
    /\ merged_sections = << <<K("code_style"), JoinLines(<<RuleA, RuleB>>)>>,
                            <<MyNotes, Prose>>,
                            <<K("lessons_learned"), RuleB>> >>

\* C17: a key of the new map that is not in the existing map and whose body
\* is not blank gets the new body, trimmed and otherwise as written, with
\* its repeated lines; a key of the new map whose body is blank changes
\* nothing: it gets no entry, or the existing entry stays as it was.
NewKeysInserted ==
    pc = "merged" =>
        \A k \in Keys(sections) :
            \A body \in {Get(sections, k, <<>>)} :
                /\ (k \notin Keys(parsed_sections) /\ Strip(body) # <<>>)
                       => /\ Get(merged_sections, k, <<>>) = Strip(body)
                          /\ NonBlankSeq(SplitLines(Get(merged_sections, k, <<>>)))
                                 = NonBlankSeq(SplitLines(body))
                /\ (k \notin Keys(parsed_sections) /\ Strip(body) = <<>>)
                       => k \notin Keys(merged_sections)
                /\ (k \in Keys(parsed_sections) /\ Strip(body) = <<>>)
                       => Get(merged_sections, k, <<>>)
                              = Get(parsed_sections, k, <<>>)

NewKeysInsertedWitness ==
    /\ pc = "merged"
    /\ sections = << <<K("lessons_learned"), JoinLines(<<Blank, RuleB, RuleB>>)>> >>
    /\ K("lessons_learned") \notin Keys(parsed_sections)
    /\ Get(merged_sections, K("lessons_learned"), <<>>) = JoinLines(<<RuleB, RuleB>>)

\* the normalized forms of the non-blank lines of a body
Forms(body) == {NormalForm(l) : l \in NonBlankLines(body)}

\* the first line of body with the normalized form f
FirstWithForm(body, f) ==
    LET ls == SplitLines(body)
        at == {i \in DOMAIN ls : Strip(ls[i]) # <<>> /\ NormalForm(ls[i]) = f}
    IN  ls[CHOOSE i \in at : \A n \in at : i <= n]

\* the forms that occur several times in the new body of k and not in the
\* existing body
RepeatedNewForms(k) ==
    {f \in Forms(Get(sections, k, <<>>)) \ Forms(Get(parsed_sections, k, <<>>)) :
        CountForm(Get(sections, k, <<>>), f) > 1}

\* C24: for a key in both maps, a non-blank line that occurs several times
\* (up to normalization) in the new body and not in the existing body is in
\* the merged body exactly once, written as at its first occurrence in the
\* new body, list item or not.
NewDuplicatesOnce ==
    pc = "merged" =>
        \A k \in BothKeys :
            \A f \in RepeatedNewForms(k) :
                /\ CountForm(Get(merged_sections, k, <<>>), f) = 1
                /\ FirstWithForm(Get(merged_sections, k, <<>>), f)
                       = FirstWithForm(Get(sections, k, <<>>), f)

NewDuplicatesOnceWitness ==
    /\ pc = "merged"
    /\ Get(parsed_sections, K("code_style"), <<>>) = RuleA
    /\ \E n \in {JoinLines(<<Prose, Prose>>), JoinLines(<<RuleB, RuleB>>)} :
           /\ Get(sections, K("code_style"), <<>>) = n
           /\ RepeatedNewForms(K("code_style")) # {}
           /\ CountLine(Get(merged_sections, K("code_style"), <<>>),
                        SplitLines(n)[1]) = 1

-----------------------------------------------------------------------------
(* parse_agents_sections on its own                                        *)

H2Notes == H2(<<"Notes">>)
H2Tech == H2(<<"Tech", "Stack">>)

\* documents of at most MaxDocLines lines
DocLines == {H2Notes, H2Tech, Fence3, Fence4, RuleA, Prose, Blank}

\* documents with headings in other cases, with closing hashes, without
\* text, indented, inside a list item, with a paragraph underlined with
\* dashes, with a rule, with first- and third-level headings and bold text
SpecialDocs ==
    { JoinLines(<<H2(<<"tech", "stack">>), RuleA>>),
      JoinLines(<<H2(<<"TECH", "STACK">>), Prose>>),
      JoinLines(<<H2(<<"Code", "Style", "&", "Strict", "Rules">>), RuleA,
                  H2(<<"Code", "Style">>), Prose>>),
      JoinLines(<<H2(<<"Lessons", "Learned", "(Past", "Failures)">>), RuleA>>),
      JoinLines(<<Prose, H2Notes \o <<" ", "#", "#">>, RuleA>>),
      JoinLines(<<<<"#", "#">>, RuleA, H2Notes, Prose>>),
      JoinLines(<<H2Tech, RuleB, <<"#", "#", " ">>, RuleA>>),
      JoinLines(<<H2Notes, Prose, <<"-", "-", "-">>, RuleA>>),
      JoinLines(<<H2Notes, Blank, <<"-", "-", "-">>, RuleA>>),
      JoinLines(<<H2Notes, <<"#", " ", "Title">>, <<"#", "#", "#", " ", "Sub">>,
                  <<"*", "*", "Bold", "*", "*">>, RuleA>>),
      JoinLines(<<H2Notes, <<"*", " ">> \o H2Tech, Prose>>),
      JoinLines(<<<<" ", " ", " ">> \o H2Notes, RuleA>>),
      JoinLines(<<H2Tech, Blank, <<" ", " ", " ", " ">> \o H2Notes, RuleA>>),
      JoinLines(<<H2Notes, RuleA, H2Tech, Prose, H2Notes, RuleB>>) }

Docs == {JoinLines(q) : q \in SeqsUpTo(DocLines, MaxDocLines)} \cup SpecialDocs

InitParse ==
    /\ existing_content \in Docs
    /\ parsed_sections = <<>>
    /\ sections = <<>>
    /\ merged_sections = <<>>
    /\ style = "comprehensive"
    /\ repo_name = <<"demo">>
    /\ final_output = <<>>
    /\ rerendered = <<>>
    /\ pc = "ready"
    /\ runs = 0
    /\ first_content = <<>>
    /\ new_keys = {}
    /\ disk = NoDisk
    /\ prev_run = NoRun
    /\ NoCli

Parse ==
    /\ pc = "ready"
    /\ parsed_sections' = parse_agents_sections(existing_content)
    /\ pc' = "parsed"
    /\ UNCHANGED <<existing_content, sections, style, repo_name,
                   merged_sections, final_output, rerendered, runs,
                   first_content, new_keys, disk, prev_run, cli>>

NextParse == Parse

SpecParse == InitParse /\ [][NextParse]_vars

\* length of the fenced code block that is open after line i (0: none),
\* a closing fence being at least as long as the opening one
RECURSIVE OpenFence(_, _)
OpenFence(lines, i) ==
    IF i = 0 THEN 0
    ELSE LET before == OpenFence(lines, i - 1)
         IN  IF before > 0
             THEN IF IsFenceClose(lines[i], before) THEN 0 ELSE before
             ELSE FenceOpenLen(lines[i])

\* line i lies inside a fenced code block
InsideFence(lines, i) == i > 1 /\ OpenFence(lines, i - 1) > 0

LooksLikeH2(L) == Len(L) >= 3 /\ SubSeq(L, 1, 3) = <<"#", "#", " ">>

\* the lines that are second-level headings outside fenced code
RealHeadings(lines) ==
    {j \in DOMAIN lines : LooksLikeH2(lines[j]) /\ ~InsideFence(lines, j)}

\* the key under which the section of heading line L is stored
KeyOfLine(L) == IdToKey(Lower(Strip(Drop(L, 3))), Strip(Drop(L, 3)))

\* C3: a line that looks like a second-level heading and lies inside a
\* fenced code block starts no section: its text is no key of the result
\* (unless a heading outside fenced code has the same key), and the line is
\* a line of the body of the section that encloses it (the section of the
\* last heading before it, when no later heading has the same key).
HeadingInFenceImmune ==
    pc = "parsed" =>
        LET lines == SplitLines(existing_content)
            real  == RealHeadings(lines)
        IN  \A i \in DOMAIN lines :
                (LooksLikeH2(lines[i]) /\ InsideFence(lines, i)) =>
                    /\ (\A j \in real : KeyOfLine(lines[j]) # KeyOfLine(lines[i]))
                          => KeyOfLine(lines[i]) \notin Keys(parsed_sections)
                    /\ \A j \in real :
                          (/\ j < i
                           /\ \A m \in real : m <= j \/ (m > i /\
                                  KeyOfLine(lines[m]) # KeyOfLine(lines[j])))
                          => \E n \in DOMAIN SplitLines(Get(parsed_sections,
                                        KeyOfLine(lines[j]), <<>>)) :
                                 SplitLines(Get(parsed_sections,
                                     KeyOfLine(lines[j]), <<>>))[n] = lines[i]

HeadingInFenceWitness ==
    /\ pc = "parsed"
    /\ existing_content = JoinLines(<<H2Tech, Fence3, H2Notes, Fence3>>)
    /\ parsed_sections =
           << <<K("tech_stack"), JoinLines(<<Fence3, H2Notes, Fence3>>)>> >>

\* the entries of both schemas
AllHeadings ==
    {AGENTS_SECTION_HEADINGS[i] : i \in DOMAIN AGENTS_SECTION_HEADINGS}
        \cup {STRICT_AGENTS_SECTION_HEADINGS[i] :
                 i \in DOMAIN STRICT_AGENTS_SECTION_HEADINGS}

\* the key that the contract gives the heading text: the schema key of the
\* display heading that equals it whatever the case, else the text itself
ExpectedKey(text) ==
    LET m == {h \in AllHeadings : Lower(h[2]) = Lower(text)}
    IN  IF m # {} THEN (CHOOSE h \in m : TRUE)[1] ELSE text

\* C11: every second-level heading of the document has an entry in the
\* result, under the schema key of the display heading that equals its text
\* case-insensitively, or under the text itself when none does; the result
\* has no other keys.
ParserKeyMapping ==
    pc = "parsed" =>
        \A toks \in {MdH2Tokens(existing_content)} :
            /\ \A j \in DOMAIN toks :
                  ExpectedKey(Strip(toks[j].content)) \in Keys(parsed_sections)
            /\ \A k \in Keys(parsed_sections) :
                  \E j \in DOMAIN toks : ExpectedKey(Strip(toks[j].content)) = k

\* lines without the blank lines at its start and its end
RECURSIVE TrimBlankLines(_)
TrimBlankLines(lines) ==
    IF lines = <<>> THEN <<>>
    ELSE IF Strip(lines[1]) = <<>> THEN TrimBlankLines(Tail(lines))
    ELSE IF Strip(lines[Len(lines)]) = <<>>
         THEN TrimBlankLines(SubSeq(lines, 1, Len(lines) - 1))
    ELSE lines

\* the lines from the line after the j-th heading to the line before the
\* next heading, or to the end of the document
Extent(lines, toks, j) ==
    Slice(lines, toks[j].map1,
          IF j < Len(toks) THEN toks[j + 1].map0 ELSE Len(lines))

\* the heading whose body the entry of key k holds: the last one of that key
HeadingOf(toks, k) ==
    {j \in DOMAIN toks :
        /\ ExpectedKey(Strip(toks[j].content)) = k
        /\ \A m \in DOMAIN toks :
              m > j => ExpectedKey(Strip(toks[m].content)) # k}

\* C12 as stated: each body is the lines from the line after its heading to
\* the line before the next heading (or the end), without the blank lines
\* at both ends and with every other line unchanged; a document without
\* headings gives the empty mapping.
ParserBodyExtent ==
    pc = "parsed" =>
        \A lines \in {SplitLines(existing_content)} :
        \A toks \in {MdH2Tokens(existing_content)} :
            /\ toks = <<>> => parsed_sections = <<>>
            /\ \A i \in DOMAIN parsed_sections :
                  \E j \in HeadingOf(toks, parsed_sections[i][1]) :
                      parsed_sections[i][2]
                          = JoinLines(TrimBlankLines(Extent(lines, toks, j)))

\* C12 as amended: each body is that text without the white space at both
\* ends: the blank lines, and also the indentation of its first line and the
\* trailing spaces of its last line.
ParserBodyExtentStripped ==
    pc = "parsed" =>
        \A lines \in {SplitLines(existing_content)} :
        \A toks \in {MdH2Tokens(existing_content)} :
            /\ toks = <<>> => parsed_sections = <<>>
            /\ \A i \in DOMAIN parsed_sections :
                  \E j \in HeadingOf(toks, parsed_sections[i][1]) :
                      \A body \in {JoinLines(TrimBlankLines(Extent(lines, toks, j)))} :
                          /\ parsed_sections[i][2] = Strip(body)
                          /\ \E a \in 0..Len(body) :
                                /\ SubSeq(body, a + 1, a + Len(parsed_sections[i][2]))
                                       = parsed_sections[i][2]
                                /\ \A n \in 1..a : body[n] = " "
                                /\ \A n \in (a + Len(parsed_sections[i][2]) + 1)..Len(body) :
                                       body[n] = " "

ParserBodyExtentWitness ==
    /\ pc = "parsed"
    /\ existing_content =
           JoinLines(<<H2Tech, Blank, <<" ", " ", " ", " ">> \o H2Notes, RuleA>>)
    /\ parsed_sections = << <<K("tech_stack"), JoinLines(<<H2Notes, RuleA>>)>> >>

\* the number of spaces at the start of L
LeadingSpaces(L) ==
    IF \E i \in DOMAIN L : L[i] # " "
    THEN (CHOOSE i \in DOMAIN L : L[i] # " " /\ \A j \in 1..(i - 1) : L[j] = " ") - 1
    ELSE Len(L)

\* L is syntactically a second-level heading marker: two hashes, then a
\* space or the end of the line, after at most three spaces
IsH2Marker(L) ==
    LET r == SubSeq(L, LeadingSpaces(L) + 1, Len(L))
    IN  /\ LeadingSpaces(L) <= 3
        /\ Len(r) >= 2
        /\ r[1] = "#" /\ r[2] = "#"
        /\ (Len(r) = 2 \/ r[3] = " ")

\* L is a list item that holds more than its marker
IsItemLine(L) == Len(L) >= 3 /\ L[1] \in {"*", "-"} /\ L[2] = " "

\* L is a line of dashes
IsDashLine(L) == L # <<>> /\ \A n \in DOMAIN L : L[n] = "-"

-----------------------------------------------------------------------------
(* compile_agents_md over successive runs: the output of a run is the      *)
(* existing document of the next                                           *)

Styles == {"comprehensive", "strict"}

Title == TitleLine(<<"demo">>)

\* existing documents: none; an operator's section and a schema section; an
\* operator's section with a fenced heading; a section under a schema key
\* as heading, as a run in the other style writes it; an operator's section
\* without body; two headings of one schema key; an unclosed fence
InitialDocs ==
    { <<>>,
      JoinLines(<<Title, H2(<<"My", "Notes">>), Prose, Blank,
                  H2(<<"Code", "Style", "&", "Strict", "Rules">>), RuleA>>),
      JoinLines(<<Title, Blank, H2(<<"My", "Notes">>), Blank,
                  Fence3, H2Notes, Fence3>>),
      JoinLines(<<Title, Blank, H2(<<"lessons_learned">>), Blank, RuleA>>),
      JoinLines(<<Title, Blank, H2(<<"My", "Notes">>), Blank,
                  H2(<<"Code", "Style">>), Blank, RuleA>>),
      JoinLines(<<Title, Blank, H2(<<"Code", "Style">>), Blank, RuleA, Blank,
                  H2(<<"Code", "Style", "&", "Strict", "Rules">>), Blank, Prose>>),
      JoinLines(<<Title, Blank, H2(<<"My", "Notes">>), Blank, Fence3, Prose>>) }

\* new bodies: a rule; a known rule reformatted and a new one; an unclosed
\* fence; a fenced heading; a heading of the body's own; whitespace only
NewBodies ==
    { RuleB,
      JoinLines(<<RuleA2, RuleB>>),
      JoinLines(<<Fence3, Prose>>),
      JoinLines(<<Fence3, H2Notes, Fence3>>),
      JoinLines(<<H2Notes, Prose>>),
      <<" ">>,
      InlineFence }

NewKeys == {K("code_style"), K("lessons_learned"), K("project_overview")}

\* new section maps: empty, one section, two sections against the schema
\* order, an unknown key first
SectionMaps ==
    {<<>>}
        \cup {<< <<k, b>> >> : k \in NewKeys, b \in NewBodies}
        \cup {<< <<K("lessons_learned"), RuleA>>, <<k, b>> >> :
                 k \in {K("code_style"), K("project_overview")}, b \in NewBodies}
        \cup {<< <<K("Extra"), Prose>>, <<K("code_style"), b>> >> : b \in NewBodies}

\* the sections of a later run: the same again, none, or one new rule
LaterMaps(prev) == {prev, <<>>, << <<K("lessons_learned"), RuleB>> >>}

Init ==
    /\ existing_content \in InitialDocs
    /\ sections \in SectionMaps
    /\ style \in Styles
    /\ repo_name = <<"demo">>
    /\ parsed_sections = <<>>
    /\ merged_sections = <<>>
    /\ final_output = <<>>
    /\ rerendered = <<>>
    /\ pc = "ready"
    /\ runs = 0
    /\ first_content = existing_content
    /\ new_keys = Keys(sections)
    /\ disk = NoDisk
    /\ prev_run = NoRun
    /\ NoCli

Compile ==
    /\ pc = "ready"
    /\ final_output' = compile_agents_md(sections, repo_name, style,
                                         existing_content)
    /\ pc' = "done"
    /\ runs' = runs + 1
    /\ UNCHANGED <<existing_content, sections, style, repo_name,
                   parsed_sections, merged_sections, rerendered,
                   first_content, new_keys, disk, prev_run, cli>>

NextRun ==
    /\ pc = "done"
    /\ runs < MaxRuns
    /\ existing_content' = final_output
    /\ sections' \in LaterMaps(sections)
    /\ style' \in Styles
    /\ new_keys' = new_keys \cup Keys(sections')
    /\ pc' = "ready"
    /\ UNCHANGED <<repo_name, parsed_sections, merged_sections, final_output,
                   rerendered, runs, first_content, disk, prev_run, cli>>

Next == Compile \/ NextRun

Spec == Init /\ [][Next]_vars

\* C1: the number of triple-backtick markers in the compiled document is
\* even, whatever the sections, the style and the existing document.
FenceCountEven == pc = "done" => CountFence(final_output) % 2 = 0

FenceCountEvenWitness ==
    /\ pc = "done"
    /\ sections = << <<K("code_style"), JoinLines(<<Fence3, Prose>>)>> >>
    /\ existing_content = <<>>
    /\ CountFence(final_output) = 2
    /\ SubSeq(final_output, Len(final_output) - 3, Len(final_output))
           = <<"\n", BT, BT, BT>>

\* the sections compile_agents_md renders
Processed ==
    IF existing_content # <<>>
    THEN merge_agents_content(parse_agents_sections(existing_content), sections)
    ELSE sections

\* pat occurs in text at position i
OccursAt(text, pat, i) ==
    i + Len(pat) - 1 <= Len(text) /\ SubSeq(text, i, i + Len(pat) - 1) = pat

\* the positions at which pat occurs in text
Positions(text, pat) == {i \in 1..Len(text) : OccursAt(text, pat, i)}

Contains(text, pat) == Positions(text, pat) # {}

NoBody == \A i \in DOMAIN sections : Strip(sections[i][2]) = <<>>

\* C9 as stated: with no non-empty section and no existing content the
\* output is exactly the title line.
EmptyCompileIsTitleLine ==
    (pc = "done" /\ existing_content = <<>> /\ NoBody)
        => final_output = TitleLine(repo_name)

\* C9 as amended: with no non-empty section and no existing content the
\* output is the title line followed by one newline, and nothing else; with
\* no existing content no heading line is emitted for a key whose body is
\* missing or blank.
EmptyCompileIsTitleNewline ==
    (pc = "done" /\ existing_content = <<>>) =>
        /\ NoBody => final_output = TitleLine(repo_name) \o <<"\n">>
        /\ \A i \in DOMAIN Headings(style) :
              Strip(Get(sections, Headings(style)[i][1], <<>>)) = <<>>
                  => \A n \in DOMAIN SplitLines(final_output) :
                         SplitLines(final_output)[n]
                             # <<"#", "#", " ">> \o Headings(style)[i][2]
        /\ \A i \in DOMAIN sections :
              Strip(sections[i][2]) = <<>>
                  => \A n \in DOMAIN SplitLines(final_output) :
                         SplitLines(final_output)[n]
                             # <<"#", "#", " ">> \o sections[i][1]

EmptyCompileWitness ==
    /\ pc = "done"
    /\ existing_content = <<>>
    /\ style = "strict"
    /\ sections = << <<K("code_style"), <<" ">> >> >>
    /\ final_output = <<"#", " ", "AGENTS.md", " ", "U+2014", " ", "demo", "\n">>

\* the schema entries of the style whose body in proc is not blank, in
\* schema order
Emitted(proc, st) ==
    SelectSeq(Headings(st), LAMBDA h : Strip(Get(proc, h[1], <<>>)) # <<>>)

\* the other sections of proc whose body is not blank
Others(proc, st) ==
    {i \in DOMAIN proc :
        /\ \A j \in DOMAIN Headings(st) : Headings(st)[j][1] # proc[i][1]
        /\ Strip(proc[i][2]) # <<>>}

\* f"## {heading}\n\n{content}\n", put together line by line
SectionText(heading, content) ==
    JoinLines(<<H2(<<>>) \o heading, Blank>>) \o <<"\n">> \o content \o <<"\n">>

\* C10: the non-empty sections whose keys are in the style's schema appear
\* under the style's display heading in the schema's order, whatever the
\* order of the keys in the input; every other non-empty section appears
\* after all of them.
SchemaOrderedLayout ==
    pc = "done" =>
        \A proc \in {Processed} :
        \A em \in {Emitted(proc, style)} :
        \A pos \in {[i \in DOMAIN em |->
                       Positions(final_output,
                                 SectionText(em[i][2],
                                             Strip(Get(proc, em[i][1], <<>>))))]} :
            /\ \A i \in DOMAIN em : pos[i] # {}
            /\ \A i, j \in DOMAIN em :
                  i < j => \E a \in pos[i] : \E b \in pos[j] : a < b
            /\ \A x \in Others(proc, style) :
                  \E c \in Positions(final_output,
                                     SectionText(proc[x][1], proc[x][2])) :
                      \A i \in DOMAIN em : \E a \in pos[i] : a < c

SchemaOrderedLayoutWitness ==
    /\ pc = "done"
    /\ style = "strict"
    /\ existing_content = <<>>
    /\ sections = << <<K("Extra"), Prose>>, <<K("code_style"), RuleB>> >>
    /\ final_output =
           JoinLines(<<Title, Blank,
                       H2(<<"Code", "Style", "&", "Strict", "Rules">>), Blank,
                       RuleB, Blank, H2(<<"Extra">>), Blank, Prose>>) \o <<"\n">>

\* k is a display heading of one of the schemas, whatever the case
IsDisplayHeading(k) == IdToKey(Lower(k), <<>>) # <<>>

\* text has the line L, and body after it
LineThenBody(text, L, body) ==
    \E a \in Positions(<<"\n">> \o text, <<"\n">> \o L \o <<"\n">>) :
        \E b \in Positions(text, body) : a <= b

\* C2: a section of the first existing document whose heading is no display
\* heading of either schema, and whose heading no new section has targeted,
\* is in the output of every later run: its heading line, followed by its
\* original body verbatim.
CustomSectionPreserved ==
    pc = "done" =>
        \A orig \in {parse_agents_sections(first_content)} :
        \A i \in DOMAIN orig :
            (~IsDisplayHeading(orig[i][1]) /\ orig[i][1] \notin new_keys)
                => LineThenBody(final_output, H2(<<>>) \o orig[i][1], orig[i][2])

\* the body of the section that the j-th heading token of lines opens
ExtentBody(lines, toks, j) ==
    Strip(JoinLines(Slice(lines, toks[j].map1,
                          IF j < Len(toks) THEN toks[j + 1].map0 ELSE Len(lines))))

\* the display heading of key k in the schema of style st
DisplayHeading(k, st) ==
    Headings(st)[CHOOSE i \in DOMAIN Headings(st) : Headings(st)[i][1] = k][2]

StyleKeys(st) == {Headings(st)[i][1] : i \in DOMAIN Headings(st)}

\* C7: when the existing document has a section whose heading maps to a key
\* k of the selected style's schema and the new sections contain k, the
\* output has exactly one heading line of k, and under it one body with
\* every non-blank line of the old body and, up to normalization, every
\* non-blank line of the new body.
MergedUnderOneHeading ==
    (pc = "done" /\ existing_content # <<>>) =>
        \A lines \in {SplitLines(existing_content)} :
        \A toks \in {MdH2Tokens(existing_content)} :
        \A proc \in {Processed} :
        \A j \in DOMAIN toks :
            \A k \in {IdToKey(Lower(Strip(toks[j].content)), <<>>)} :
                (k \in StyleKeys(style) /\ k \in Keys(sections)) =>
                    \A body \in {Strip(Get(proc, k, <<>>))} :
                        /\ Cardinality({n \in DOMAIN SplitLines(final_output) :
                               SplitLines(final_output)[n]
                                   = H2(<<>>) \o DisplayHeading(k, style)}) = 1
                        /\ Contains(final_output,
                                    SectionText(DisplayHeading(k, style), body))
                        /\ NonBlankLines(ExtentBody(lines, toks, j))
                               \subseteq NonBlankLines(body)
                        /\ \A l \in NonBlankLines(Get(sections, k, <<>>)) :
                               CountForm(body, NormalForm(l)) >= 1

-----------------------------------------------------------------------------
(* round trip: compile without existing content, parse the document,       *)
(* compile the parsed sections again                                        *)

Dashes == <<"-", "-", "-">>

RoundTripKeys ==
    {K("code_style"), K("project_overview"), K("lessons_learned"), K("Extra"),
     T(<<"Code", "Style">>)}

\* a rule; two rules; a fenced heading; an unclosed fence; a heading; a
\* leading blank line; white space only; a paragraph with an underline
RoundTripBodies ==
    { RuleB,
      JoinLines(<<RuleA, RuleB>>),
      JoinLines(<<Fence3, H2Notes, Fence3>>),
      JoinLines(<<Fence3, Prose>>),
      JoinLines(<<H2Notes, Prose>>),
      JoinLines(<<Blank, RuleB>>),
      <<" ">>,
      JoinLines(<<Prose, Dashes>>) }

RoundTripMaps ==
    {<<>>}
        \cup {<< <<k, b>> >> : k \in RoundTripKeys, b \in RoundTripBodies}
        \cup {<< <<k[1], b[1]>>, <<k[2], b[2]>> >> :
                 k \in {q \in RoundTripKeys \X RoundTripKeys : q[1] # q[2]},
                 b \in RoundTripBodies \X RoundTripBodies}

InitRoundTrip ==
    /\ existing_content = <<>>
    /\ sections \in RoundTripMaps
    /\ style \in Styles
    /\ repo_name = <<"demo">>
    /\ parsed_sections = <<>>
    /\ merged_sections = <<>>
    /\ final_output = <<>>
    /\ rerendered = <<>>
    /\ pc = "ready"
    /\ runs = 0
    /\ first_content = <<>>
    /\ new_keys = Keys(sections)
    /\ disk = NoDisk
    /\ prev_run = NoRun
    /\ NoCli

Reparse ==
    /\ pc = "done"
    /\ parsed_sections' = parse_agents_sections(final_output)
    /\ pc' = "reparsed"
    /\ UNCHANGED <<existing_content, sections, style, repo_name,
                   merged_sections, final_output, rerendered, runs,
                   first_content, new_keys, disk, prev_run, cli>>

Recompile ==
    /\ pc = "reparsed"
    /\ rerendered' = compile_agents_md(parsed_sections, repo_name, style, <<>>)
    /\ pc' = "rerendered"
    /\ UNCHANGED <<existing_content, sections, style, repo_name,
                   parsed_sections, merged_sections, final_output, runs,
                   first_content, new_keys, disk, prev_run, cli>>

NextRoundTrip == Compile \/ Reparse \/ Recompile

SpecRoundTrip == InitRoundTrip /\ [][NextRoundTrip]_vars

PlainBody(body) ==
    \A lines \in {SplitLines(body)} :
        /\ OpenFence(lines, Len(lines)) = 0
        /\ CountFence(body) % 2 = 0
        /\ \A j \in DOMAIN lines :
              ~InsideFence(lines, j) =>
                  /\ ~LooksLikeH2(lines[j])
                  /\ ~(/\ j > 1
                       /\ Strip(lines[j - 1]) # <<>>
                       /\ lines[j] # <<>>
                       /\ \A n \in DOMAIN lines[j] : lines[j][n] = "-")

\* the sections that the round trip gives back
RoundTripSafe(secs, st) ==
    \A i \in DOMAIN secs :
        /\ secs[i][1] \in StyleKeys(st) \/ ~IsDisplayHeading(secs[i][1])
        /\ secs[i][1] \notin StyleKeys(st)
               => Strip(secs[i][2]) \in {secs[i][2], <<>>}
        /\ PlainBody(secs[i][2])

IsFenceDelimiter(L) ==
    Len(Strip(L)) >= 3 /\ SubSeq(Strip(L), 1, 3) = <<BT, BT, BT>>

\* a fenced block is open after line i, a block opening and closing at
\* fence-delimiter lines
RECURSIVE BlockOpen(_, _)
BlockOpen(lines, i) ==
    IF i = 0 THEN FALSE
    ELSE IF IsFenceDelimiter(lines[i]) THEN ~BlockOpen(lines, i - 1)
    ELSE BlockOpen(lines, i - 1)

\* C18: in the compiled document, scanned line by line, every fenced block
\* that is opened is closed before the end of the document.
NoUnterminatedBlock ==
    pc = "done" =>
        ~BlockOpen(SplitLines(final_output), Len(SplitLines(final_output)))

-----------------------------------------------------------------------------
(* main: load the existing AGENTS.md, extract and compile, save            *)

MaxInvocations == 2

\* re.sub(r"^```(?:markdown)?\s*\n|```\s*$", "", text.strip()): an opening
\* fence at the very start, with the white space after it up to its last
\* newline, and a fence at the very end are removed
strip_outer_fence(text) ==
    LET s0   == Strip(text)
        p    == IF Len(s0) >= 4 /\ s0[4] = "markdown" THEN 5 ELSE 4
        nl   == {i \in p..Len(s0) :
                    /\ s0[i] = "\n"
                    /\ \A n \in p..i : IsSpace(s0[n])}
        r    == IF Len(s0) >= 3 /\ SubSeq(s0, 1, 3) = <<BT, BT, BT>> /\ nl # {}
                THEN SubSeq(s0, (CHOOSE i \in nl : \A n \in nl : i >= n) + 1,
                            Len(s0))
                ELSE s0
    IN  IF Len(r) >= 3 /\ SubSeq(r, Len(r) - 2, Len(r)) = <<BT, BT, BT>>
        THEN SubSeq(r, 1, Len(r) - 3)
        ELSE r

\* the text save_agents_to_disk writes
save_agents_to_disk(agents_content) == strip_outer_fence(agents_content)

\* one value of the extraction with the outer wrap removed and nothing else
CleanSectionNoClose(v) == Strip(strip_outer_fence(v))

\* AgentsMdCreator.forward: one value of the extraction, cleaned
CleanSection(v) ==
    LET clean_v == Strip(strip_outer_fence(v))
    IN  IF CountFence(clean_v) % 2 # 0
        THEN clean_v \o <<"\n", BT, BT, BT>>
        ELSE clean_v

valid_keys == {h[1] : h \in AllHeadings}

\* AgentsMdCreator.forward: sections_dict
RECURSIVE SanitizeSections(_, _, _)
SanitizeSections(raw, j, sections_dict) ==
    IF j > Len(raw) THEN sections_dict
    ELSE IF raw[j].key \in valid_keys /\ raw[j].is_str
         THEN SanitizeSections(raw, j + 1,
                               Put(sections_dict, raw[j].key,
                                   CleanSection(raw[j].value)))
         ELSE SanitizeSections(raw, j + 1, sections_dict)

\* what the extraction may return: a body wrapped in a markdown fence and
\* the reasoning of the model; a body that ends with a code block; a value
\* that is no string; a body with a code block that is not closed
RawExtractions ==
    { << [key |-> K("code_style"), is_str |-> TRUE,
          value |-> JoinLines(<<Fence3 \o <<"markdown">>, RuleB, Fence3>>)],
         [key |-> K("reasoning"), is_str |-> TRUE, value |-> Prose] >>,
      << [key |-> K("code_style"), is_str |-> TRUE,
          value |-> JoinLines(<<RuleB, Fence3, Prose, Fence3>>)] >>,
      << [key |-> K("lessons_learned"), is_str |-> TRUE, value |-> RuleA],
         [key |-> K("tech_stack"), is_str |-> FALSE, value |-> <<>>] >>,
      << [key |-> K("tech_stack"), is_str |-> TRUE,
          value |-> JoinLines(<<FencePy, ImportOs>>)] >> }

\* a document that an operator has put in place by hand
OperatorDoc == JoinLines(<<Title, Blank, H2(<<"My", "Notes">>), Blank, Prose>>)

InitPipeline ==
    /\ disk \in {NoDisk,
                 [NoDisk EXCEPT ![FolderName(<<"demo">>)] =
                      [exists |-> TRUE, text |-> OperatorDoc]]}
    /\ repo_name \in RepoNames
    /\ style \in Styles
    /\ existing_content = <<>>
    /\ sections = <<>>
    /\ parsed_sections = <<>>
    /\ merged_sections = <<>>
    /\ final_output = <<>>
    /\ rerendered = <<>>
    /\ pc = "start"
    /\ runs = 1
    /\ first_content = <<>>
    /\ new_keys = {}
    /\ prev_run = NoRun
    /\ NoCli

\* main, existing_agents_path.exists() is false
LoadAbsent ==
    /\ pc = "start"
    /\ ~disk[FolderName(repo_name)].exists
    /\ existing_content' = <<>>
    /\ pc' = "loaded"
    /\ UNCHANGED <<sections, style, repo_name, parsed_sections,
                   merged_sections, final_output, rerendered, runs,
                   first_content, new_keys, disk, prev_run, cli>>

\* main, the file exists and f.read() returns its text
LoadRead ==
    /\ pc = "start"
    /\ disk[FolderName(repo_name)].exists
    /\ existing_content' = disk[FolderName(repo_name)].text
    /\ pc' = "loaded"
    /\ UNCHANGED <<sections, style, repo_name, parsed_sections,
                   merged_sections, final_output, rerendered, runs,
                   first_content, new_keys, disk, prev_run, cli>>

\* main, the file exists and reading it raises: a warning, and the run goes
\* on without existing content
LoadUnreadable ==
    /\ pc = "start"
    /\ disk[FolderName(repo_name)].exists
    /\ existing_content' = <<>>
    /\ pc' = "loaded"
    /\ UNCHANGED <<sections, style, repo_name, parsed_sections,
                   merged_sections, final_output, rerendered, runs,
                   first_content, new_keys, disk, prev_run, cli>>

\* run_agents_md_pipeline up to agents_result: the extraction returns, and
\* AgentsMdCreator.forward cleans its values and compiles them
RunPipeline ==
    /\ pc = "loaded"
    /\ \E raw \in RawExtractions :
           sections' = SanitizeSections(raw, 1, <<>>)
    /\ final_output' = compile_agents_md(sections', repo_name, style,
                                         existing_content)
    /\ pc' = "compiled"
    /\ UNCHANGED <<existing_content, style, repo_name, parsed_sections,
                   merged_sections, rerendered, runs, first_content,
                   new_keys, disk, prev_run, cli>>

\* an extraction step raises: main logs the exception and exits with 1
ExtractionFails ==
    /\ pc = "loaded"
    /\ pc' = "exit1"
    /\ UNCHANGED <<existing_content, sections, style, repo_name,
                   parsed_sections, merged_sections, final_output,
                   rerendered, runs, first_content, new_keys, disk, prev_run, cli>>

\* save_agents_to_disk with the name of the repository as the folder
SaveToDiskUnderName ==
    /\ pc = "compiled"
    /\ disk' = [disk EXCEPT ![<<"demo">>] =
                   [exists |-> TRUE, text |-> save_agents_to_disk(final_output)]]
    /\ prev_run' = [prev_run EXCEPT ![repo_name] =
                       [saved |-> TRUE,
                        text |-> save_agents_to_disk(final_output),
                        output |-> final_output]]
    /\ pc' = "ended"
    /\ UNCHANGED <<existing_content, sections, style, repo_name,
                   parsed_sections, merged_sections, final_output,
                   rerendered, runs, first_content, new_keys, cli>>

\* save_agents_to_disk, write_text succeeds
SaveToDisk ==
    /\ pc = "compiled"
    /\ disk' = [disk EXCEPT ![FolderName(repo_name)] =
                   [exists |-> TRUE, text |-> save_agents_to_disk(final_output)]]
    /\ prev_run' = [prev_run EXCEPT ![repo_name] =
                       [saved |-> TRUE,
                        text |-> save_agents_to_disk(final_output),
                        output |-> final_output]]
    /\ pc' = "ended"
    /\ UNCHANGED <<existing_content, sections, style, repo_name,
                   parsed_sections, merged_sections, final_output,
                   rerendered, runs, first_content, new_keys, cli>>

\* save_agents_to_disk, write_text raises OSError: the error is logged and
\* the run ends normally; the file is as it was, or is left empty when the
\* failure came after it was opened for writing
SaveFails ==
    /\ pc = "compiled"
    /\ \/ disk' = disk
       \/ disk' = [disk EXCEPT ![FolderName(repo_name)] =
                      [exists |-> TRUE, text |-> <<>>]]
    /\ prev_run' = [prev_run EXCEPT ![repo_name] =
                       [saved |-> FALSE, text |-> <<>>,
                        output |-> final_output]]
    /\ pc' = "ended"
    /\ UNCHANGED <<existing_content, sections, style, repo_name,
                   parsed_sections, merged_sections, final_output,
                   rerendered, runs, first_content, new_keys, cli>>

\* save_agents_to_disk, target_dir.mkdir raises: nothing catches it before
\* main, which exits with 1
MkdirFails ==
    /\ pc = "compiled"
    /\ pc' = "exit1"
    /\ UNCHANGED <<existing_content, sections, style, repo_name,
                   parsed_sections, merged_sections, final_output,
                   rerendered, runs, first_content, new_keys, disk, prev_run, cli>>

\* the program is started again
NextInvocation ==
    /\ pc \in {"ended", "exit1"}
    /\ runs < MaxInvocations
    /\ repo_name' \in RepoNames
    /\ style' \in Styles
    /\ existing_content' = <<>>
    /\ sections' = <<>>
    /\ final_output' = <<>>
    /\ pc' = "start"
    /\ runs' = runs + 1
    /\ UNCHANGED <<parsed_sections, merged_sections, rerendered,
                   first_content, new_keys, disk, prev_run, cli>>

NextPipeline ==
    \/ LoadAbsent \/ LoadRead \/ LoadUnreadable
    \/ RunPipeline \/ ExtractionFails
    \/ SaveToDisk \/ SaveFails \/ MkdirFails
    \/ NextInvocation

SpecPipeline == InitPipeline /\ [][NextPipeline]_vars

\* C19: what save_agents_to_disk writes is the rendered document without its
\* surrounding white space: the document starts with its title line, so it
\* has no outer wrapper to remove.
PersistenceVerbatim ==
    \A n \in RepoNames :
        prev_run[n].saved => prev_run[n].text = Strip(prev_run[n].output)

\* projects/<name lower-cased, spaces replaced by '-'>, name by name
ExpectedFolder(n) ==
    IF n = <<"My", " ", "Repo">> THEN <<"my", "-", "repo">> ELSE n

\* C20 as stated: a run that follows a run of the same name that saved a
\* text has that text as its existing content.
LoadSaveAgreementAlways ==
    [][(pc = "start" /\ pc' = "loaded" /\ prev_run[repo_name].saved)
           => existing_content' = prev_run[repo_name].text]_vars

\* C20: the file a run of a name saved is the file the next run of that name
\* finds at projects/<name lower-cased, spaces replaced by '-'>/AGENTS.md;
\* when the file can be read the existing content is its text; when it is
\* absent or cannot be read the existing content is empty, and a run with
\* empty existing content renders the new sections only.
LoadSaveAgreement ==
    [][/\ \A n \in RepoNames :
              prev_run'[n].saved =>
                  disk'[ExpectedFolder(n)] =
                      [exists |-> TRUE, text |-> prev_run'[n].text]
       /\ LoadRead =>
              existing_content' = disk[ExpectedFolder(repo_name)].text
       /\ (LoadAbsent \/ LoadUnreadable) => existing_content' = <<>>
       /\ (pc' = "compiled" /\ existing_content = <<>>) =>
              Keys(parse_agents_sections(final_output')) \subseteq Keys(sections')
      ]_vars

LoadSaveAgreementWitness ==
    /\ pc = "loaded"
    /\ runs = 2
    /\ prev_run[repo_name].saved
    /\ repo_name = <<"My", " ", "Repo">>
    /\ existing_content = prev_run[repo_name].text

-----------------------------------------------------------------------------
(* resolve_repository_target                                               *)

\* Python None and a str value
None == [none |-> TRUE]
Some(v) == [none |-> FALSE, value |-> v]

\* truth value of an optional str: None and "" are false
Truthy(x) == ~x.none /\ x.value # <<>>

\* s unchanged: no rstrip
RECURSIVE RStripSlashNone(_)
RStripSlashNone(s) == s

\* s.rstrip('/')
RECURSIVE RStripSlash(_)
RStripSlash(s) ==
    IF s # <<>> /\ s[Len(s)] = "/" THEN RStripSlash(SubSeq(s, 1, Len(s) - 1))
    ELSE s

\* s.split('/')
RECURSIVE SplitSlash(_, _, _)
SplitSlash(s, i, cur) ==
    IF i > Len(s) THEN <<cur>>
    ELSE IF s[i] = "/" THEN <<cur>> \o SplitSlash(s, i + 1, <<>>)
    ELSE SplitSlash(s, i + 1, Append(cur, s[i]))

\* os.path.normpath of an absolute path, segment by segment
RECURSIVE NormSegments(_, _, _)
NormSegments(segs, i, acc) ==
    IF i > Len(segs) THEN acc
    ELSE IF segs[i] \in {<<>>, <<".">>} THEN NormSegments(segs, i + 1, acc)
    ELSE IF segs[i] = <<"..">>
         THEN NormSegments(segs, i + 1,
                           IF acc = <<>> THEN acc
                           ELSE SubSeq(acc, 1, Len(acc) - 1))
    ELSE NormSegments(segs, i + 1, Append(acc, segs[i]))

RECURSIVE JoinSlash(_, _)
JoinSlash(segs, i) ==
    IF i > Len(segs) THEN <<>>
    ELSE <<"/">> \o segs[i] \o JoinSlash(segs, i + 1)

\* os.path.abspath(p) in the directory cwd
abspath(p, cwd) ==
    LET full == IF p # <<>> /\ p[1] = "/" THEN p ELSE cwd \o <<"/">> \o p
        segs == NormSegments(SplitSlash(full, 1, <<>>), 1, <<>>)
    IN  IF segs = <<>> THEN <<"/">> ELSE JoinSlash(segs, 1)

\* os.path.basename(p)
basename(p) ==
    LET parts == SplitSlash(p, 1, <<>>) IN parts[Len(parts)]

resolve_repository_target(a, env) ==
    LET no_args      == ~Truthy(a.github_repository)
                            /\ ~Truthy(a.local_repository)
                            /\ ~Truthy(a.local_repo_pos)
        local_input  == Strip(env.input)
        github_repo  == IF no_args /\ Truthy(env.GITHUB_REPO_URL)
                        THEN env.GITHUB_REPO_URL
                        ELSE a.github_repository
        local_repo   == IF no_args /\ ~Truthy(env.GITHUB_REPO_URL)
                        THEN Some(IF local_input # <<>> THEN local_input
                                  ELSE env.cwd)
                        ELSE IF Truthy(a.local_repository)
                             THEN a.local_repository
                             ELSE a.local_repo_pos
    IN  IF Truthy(github_repo)
        THEN LET repo_url == Strip(github_repo.value)
                 parts    == SplitSlash(RStripSlash(repo_url), 1, <<>>)
                 name     == parts[Len(parts)]
             IN  [outcome    |-> "returned",
                  repo_url   |-> Some(repo_url),
                  local_path |-> None,
                  repo_name  |-> IF name # <<>> /\ name[Len(name)] = ".git"
                                 THEN SubSeq(name, 1, Len(name) - 1)
                                 ELSE name]
        ELSE LET local_repo_path == abspath(local_repo.value, env.cwd)
             IN  IF local_repo_path \notin env.exists
                 THEN [outcome |-> "FileNotFoundError"]
                 ELSE [outcome    |-> "returned",
                       repo_url   |-> None,
                       local_path |-> Some(local_repo_path),
                       repo_name  |-> basename(RStripSlash(local_repo_path))]

\* texts of the command line and the environment
Url(ws) == <<"https:", "/", "/", "github.com">> \o ws
Cwd == <<"/", "home", "/", "work">>

GithubArgs ==
    {None,
     Some(Url(<<"/", "foo", "/", "bar", ".git">>)),
     Some(Url(<<"/", "foo", "/", "bar", "/">>)),
     Some(<<" ">> \o Url(<<"/", "foo", "/", "baz", ".git", "/", " ">>))}
LocalArgs ==
    {None, Some(<<"/", "fake", "/", "path">>),
     Some(<<"/", "srv", "/", "bar", ".git", "/">>)}
PositionalArgs ==
    {None, Some(<<"/", "absolute", "/", "path", "/", "to", "/", "myrepo">>),
     Some(<<"myrepo">>)}
GithubEnvs == {None, Some(<<>>), Some(Url(<<"/", "env", "/", "repo", ".git">>))}
Inputs == {<<>>, <<" ", "/", "input", "/", "path", " ">>, <<"..", "/", "other">>}

\* every path of the inputs exists but /fake/path
ExistingPaths ==
    {abspath(p, Cwd) :
        p \in {x.value : x \in (LocalArgs \cup PositionalArgs) \ {None}}
                  \cup {Strip(i) : i \in Inputs} \cup {Cwd}}
        \ {<<"/", "fake", "/", "path">>}

InitTarget ==
    /\ existing_content = <<>>
    /\ sections = <<>>
    /\ style = "comprehensive"
    /\ repo_name = <<>>
    /\ parsed_sections = <<>>
    /\ merged_sections = <<>>
    /\ final_output = <<>>
    /\ rerendered = <<>>
    /\ pc = "start"
    /\ runs = 0
    /\ first_content = <<>>
    /\ new_keys = {}
    /\ disk = NoDisk
    /\ prev_run = NoRun
    /\ args \in [github_repository : GithubArgs,
                 local_repository : LocalArgs,
                 local_repo_pos : PositionalArgs]
    /\ environ \in [GITHUB_REPO_URL : GithubEnvs, input : Inputs,
                    cwd : {Cwd}, exists : {ExistingPaths}]
    /\ target = [outcome |-> "none"]
    /\ model_cfg = [outcome |-> "none"]

\* main: repo_url, local_path, repo_name = resolve_repository_target(args)
ResolveTarget ==
    /\ pc = "start"
    /\ target' = resolve_repository_target(args, environ)
    /\ pc' = IF target'.outcome = "returned" THEN "resolved" ELSE "exit1"
    /\ repo_name' = IF target'.outcome = "returned" THEN target'.repo_name
                    ELSE repo_name
    /\ UNCHANGED <<existing_content, sections, style, parsed_sections,
                   merged_sections, final_output, rerendered, runs,
                   first_content, new_keys, disk, prev_run, args, environ,
                   model_cfg>>

NextTarget == ResolveTarget

SpecTarget == InitTarget /\ [][NextTarget]_vars

\* an option or variable that was given a value
IsGiven(x) == x # None /\ x.value # <<>>

\* the target in the order --github-repository, --local-repository,
\* positional path, GITHUB_REPO_URL, interactive input
ChosenTarget ==
    IF IsGiven(args.github_repository)
    THEN [kind |-> "url", text |-> args.github_repository.value]
    ELSE IF IsGiven(args.local_repository)
    THEN [kind |-> "local", text |-> args.local_repository.value]
    ELSE IF IsGiven(args.local_repo_pos)
    THEN [kind |-> "local", text |-> args.local_repo_pos.value]
    ELSE IF IsGiven(environ.GITHUB_REPO_URL)
    THEN [kind |-> "url", text |-> environ.GITHUB_REPO_URL.value]
    ELSE IF \E i \in DOMAIN environ.input : environ.input[i] # " "
    THEN [kind |-> "local", text |-> environ.input]
    ELSE [kind |-> "local", text |-> environ.cwd]

\* the last path segment of a text, leaving out surrounding blanks and
\* trailing slashes
LastSegment(t) ==
    LET used == {i \in DOMAIN t : t[i] \notin {" ", "/"}}
        last == CHOOSE i \in used : \A n \in used : n <= i
        cuts == {i \in 1..last : t[i] = "/"}
        from == IF cuts = {} THEN 1
                ELSE (CHOOSE i \in cuts : \A n \in cuts : n <= i) + 1
    IN  IF used = {} THEN <<>> ELSE SubSeq(t, from, last)

WithoutGitSuffix(n) ==
    IF n # <<>> /\ n[Len(n)] = ".git" THEN SubSeq(n, 1, Len(n) - 1) ELSE n

\* what C21 says of every part of the result but the name
TargetChoice ==
    /\ target.repo_url = None <=> target.local_path # None
    /\ ChosenTarget.kind = "url" =>
           /\ target.repo_url # None
           /\ target.repo_url.value = Strip(ChosenTarget.text)
    /\ ChosenTarget.kind = "local" =>
           /\ target.local_path # None
           /\ target.local_path.value[1] = "/"
           /\ LastSegment(target.local_path.value)
                  = LastSegment(ChosenTarget.text)

\* C21 as stated: the name is the last segment of the chosen target
\* without a trailing '/' and without a '.git' suffix.
TargetResolution ==
    pc = "resolved" =>
        /\ TargetChoice
        /\ target.repo_name = WithoutGitSuffix(LastSegment(ChosenTarget.text))

\* C21: exactly one of repo_url and local_path is not None, chosen in the
\* order --github-repository, --local-repository, positional path,
\* GITHUB_REPO_URL, interactive input (empty: the current directory); the
\* name is the last path segment of the target without trailing '/', and
\* without a '.git' suffix when the target is a URL.
TargetResolutionUrlSuffix ==
    pc = "resolved" =>
        /\ TargetChoice
        /\ target.repo_name =
               IF ChosenTarget.kind = "url"
               THEN WithoutGitSuffix(LastSegment(ChosenTarget.text))
               ELSE LastSegment(ChosenTarget.text)

TargetResolutionWitness ==
    /\ pc = "resolved"
    /\ args.github_repository = None
    /\ args.local_repository = None
    /\ args.local_repo_pos = None
    /\ environ.GITHUB_REPO_URL # None
    /\ environ.GITHUB_REPO_URL.value # <<>>
    /\ target.repo_name = <<"repo">>

-----------------------------------------------------------------------------
(* resolve_model_config                                                    *)

PROVIDER_GEMINI == <<"gemini">>
PROVIDER_ANTHROPIC == <<"anthropic">>
PROVIDER_OPENAI == <<"openai">>

\* "<provider>/<model>"
M(provider, name) == provider \o <<"/", name>>

\* model -> [provider, tier, max_tokens]
Meta(p, t, n) == [provider |-> p, tier |-> t, max_tokens |-> n]

MODEL_CATALOG ==
    M(PROVIDER_GEMINI, "gemini-3.1-pro") :> Meta(PROVIDER_GEMINI, "primary", 2000000)
    @@ M(PROVIDER_GEMINI, "gemini-3.1-flash") :> Meta(PROVIDER_GEMINI, "mini", 1000000)
    @@ M(PROVIDER_GEMINI, "gemini-3-deep-think") :> Meta(PROVIDER_GEMINI, "primary", 1000000)
    @@ M(PROVIDER_GEMINI, "gemini-2.5-pro") :> Meta(PROVIDER_GEMINI, "primary", 1000000)
    @@ M(PROVIDER_GEMINI, "gemini-2.5-flash") :> Meta(PROVIDER_GEMINI, "mini", 25000)
    @@ M(PROVIDER_ANTHROPIC, "claude-opus-4.6") :> Meta(PROVIDER_ANTHROPIC, "primary", 1000000)
    @@ M(PROVIDER_ANTHROPIC, "claude-sonnet-4.6") :> Meta(PROVIDER_ANTHROPIC, "primary", 1000000)
    @@ M(PROVIDER_ANTHROPIC, "claude-sonnet-5") :> Meta(PROVIDER_ANTHROPIC, "primary", 1000000)
    @@ M(PROVIDER_ANTHROPIC, "claude-haiku-3-20250519") :> Meta(PROVIDER_ANTHROPIC, "mini", 16000)
    @@ M(PROVIDER_OPENAI, "gpt-5.2") :> Meta(PROVIDER_OPENAI, "primary", 128000)
    @@ M(PROVIDER_OPENAI, "gpt-5.2-instant") :> Meta(PROVIDER_OPENAI, "mini", 128000)
    @@ M(PROVIDER_OPENAI, "gpt-5.3-codex") :> Meta(PROVIDER_OPENAI, "primary", 128000)
    @@ M(PROVIDER_OPENAI, "o4-mini-deep-research") :> Meta(PROVIDER_OPENAI, "mini", 128000)

DEFAULT_MODELS ==
    PROVIDER_GEMINI :> M(PROVIDER_GEMINI, "gemini-3.1-pro")
    @@ PROVIDER_ANTHROPIC :> M(PROVIDER_ANTHROPIC, "claude-sonnet-4.6")
    @@ PROVIDER_OPENAI :> M(PROVIDER_OPENAI, "gpt-5.2")

DEFAULT_MINI_MODELS ==
    PROVIDER_GEMINI :> M(PROVIDER_GEMINI, "gemini-3.1-pro")
    @@ PROVIDER_ANTHROPIC :> M(PROVIDER_ANTHROPIC, "claude-sonnet-4.6")
    @@ PROVIDER_OPENAI :> M(PROVIDER_OPENAI, "gpt-5.2")

API_KEY_ENV_VARS ==
    PROVIDER_GEMINI :> <<"GEMINI_API_KEY", "GOOGLE_API_KEY">>
    @@ PROVIDER_ANTHROPIC :> <<"ANTHROPIC_API_KEY">>
    @@ PROVIDER_OPENAI :> <<"OPENAI_API_KEY">>

\* _resolve_api_key: the first variable of the provider that has a value,
\* None where the function exits
RECURSIVE ResolveApiKey(_, _, _)
ResolveApiKey(names, i, env) ==
    IF i > Len(names) THEN None
    ELSE IF Truthy(env[names[i]]) THEN env[names[i]]
    ELSE ResolveApiKey(names, i + 1, env)

\* _provider_from_model
ProviderFromModel(model_name) == SplitSlash(model_name, 1, <<>>)[1]

\* resolve_model_config, step 1, with the argument first where it should
\* come second
FallbackModelArgEnvFirst(model_arg, env) ==
    IF Truthy(env.AUTOSKILL_MODEL) THEN Strip(env.AUTOSKILL_MODEL.value)
    ELSE IF Truthy(model_arg) THEN Strip(model_arg.value)
    ELSE Strip(PROVIDER_GEMINI)

\* resolve_model_config, step 1: the argument, else AUTOSKILL_MODEL, else
\* the Gemini provider; stripped
FallbackModelArg(model_arg, env) ==
    IF Truthy(model_arg) THEN Strip(model_arg.value)
    ELSE IF Truthy(env.AUTOSKILL_MODEL) THEN Strip(env.AUTOSKILL_MODEL.value)
    ELSE Strip(PROVIDER_GEMINI)

resolve_model_config(model_arg, env) ==
    LET arg == FallbackModelArg(model_arg, env)
    IN  IF arg \notin DOMAIN DEFAULT_MODELS /\ arg \notin DOMAIN MODEL_CATALOG
        THEN [outcome |-> "SystemExit", code |-> 1, why |-> "unknown model"]
        ELSE LET model_name == IF arg \in DOMAIN DEFAULT_MODELS
                               THEN DEFAULT_MODELS[arg] ELSE arg
                 provider   == ProviderFromModel(model_name)
                 api_key    == ResolveApiKey(API_KEY_ENV_VARS[provider], 1, env)
                 mini_name  == DEFAULT_MINI_MODELS[provider]
             IN  IF api_key = None
                 THEN [outcome |-> "SystemExit", code |-> 1, why |-> "no key"]
                 ELSE [outcome         |-> "returned",
                       provider        |-> provider,
                       model           |-> model_name,
                       model_mini      |-> mini_name,
                       api_key         |-> api_key.value,
                       max_tokens      |-> MODEL_CATALOG[model_name].max_tokens,
                       max_tokens_mini |-> MODEL_CATALOG[mini_name].max_tokens]

\* --model and AUTOSKILL_MODEL
Ollama == <<"ollama", "/", "llama3">>
ModelArgs ==
    {None, Some(<<>>), Some(PROVIDER_GEMINI),
     Some(<<" ">> \o PROVIDER_ANTHROPIC \o <<" ">>),
     Some(M(PROVIDER_OPENAI, "gpt-5.3-codex")),
     Some(M(PROVIDER_GEMINI, "gemini-2.5-flash")),
     Some(Ollama), Some(<<"mistral">>)}
ModelEnvs ==
    {None, Some(<<>>), Some(PROVIDER_OPENAI),
     Some(M(PROVIDER_ANTHROPIC, "claude-sonnet-5")), Some(Ollama)}
Keys1(k) == {None, Some(<<k>>)}

InitModel ==
    /\ existing_content = <<>>
    /\ sections = <<>>
    /\ style = "comprehensive"
    /\ repo_name = <<>>
    /\ parsed_sections = <<>>
    /\ merged_sections = <<>>
    /\ final_output = <<>>
    /\ rerendered = <<>>
    /\ pc = "start"
    /\ runs = 0
    /\ first_content = <<>>
    /\ new_keys = {}
    /\ disk = NoDisk
    /\ prev_run = NoRun
    /\ args \in [model : ModelArgs]
    /\ environ \in [AUTOSKILL_MODEL : ModelEnvs,
                    GEMINI_API_KEY : Keys1("g-key"),
                    GOOGLE_API_KEY : Keys1("goog-key"),
                    ANTHROPIC_API_KEY : Keys1("a-key"),
                    OPENAI_API_KEY : Keys1("o-key")]
    /\ target = [outcome |-> "none"]
    /\ model_cfg = [outcome |-> "none"]

\* setup_language_model: model_cfg = resolve_model_config(model_arg)
ResolveModel ==
    /\ pc = "start"
    /\ model_cfg' = resolve_model_config(args.model, environ)
    /\ pc' = IF model_cfg'.outcome = "returned" THEN "configured" ELSE "exit1"
    /\ UNCHANGED <<existing_content, sections, style, repo_name,
                   parsed_sections, merged_sections, final_output, rerendered,
                   runs, first_content, new_keys, disk, prev_run, args,
                   environ, target>>

NextModel == ResolveModel

SpecModel == InitModel /\ [][NextModel]_vars

\* the model asked for: the argument, else the variable, else "gemini",
\* without surrounding blanks
AskedModel ==
    LET raw == IF IsGiven(args.model) THEN args.model.value
               ELSE IF IsGiven(environ.AUTOSKILL_MODEL)
               THEN environ.AUTOSKILL_MODEL.value
               ELSE <<"gemini">>
    IN  SelectSeq(raw, LAMBDA c : c # " ")

UncataloguedPassThrough ==
    (pc # "start" /\ args.model = Some(Ollama)) =>
        /\ model_cfg.outcome = "returned"
        /\ model_cfg.model = Ollama

-----------------------------------------------------------------------------
(* merge_agents_content and fenced code blocks                             *)

\* the complete fenced blocks of a body: from an opening fence-delimiter
\* line to the fence-delimiter line that closes it
FencedBlocks(lines) ==
    {SubSeq(lines, i, j) : <<i, j>> \in
        {p \in (DOMAIN lines) \X (DOMAIN lines) :
            /\ p[1] < p[2]
            /\ IsFenceDelimiter(lines[p[1]])
            /\ IsFenceDelimiter(lines[p[2]])
            /\ ~BlockOpen(lines, p[1] - 1)
            /\ \A n \in (p[1] + 1)..(p[2] - 1) : ~IsFenceDelimiter(lines[n])}}

\* blk is a run of consecutive lines of lines
HasBlock(lines, blk) ==
    \E p \in 1..(Len(lines) - Len(blk) + 1) :
        SubSeq(lines, p, p + Len(blk) - 1) = blk

\* C25: for a key in both maps, a complete fenced block of the new body
\* that the existing body does not have is in the merged body, its lines
\* contiguous and in order.
NewBlockIntact ==
    pc = "merged" =>
        \A k \in BothKeys :
            \A blk \in FencedBlocks(SplitLines(Get(sections, k, <<>>))) :
                HasBlock(SplitLines(Get(parsed_sections, k, <<>>)), blk)
                    \/ HasBlock(SplitLines(Get(merged_sections, k, <<>>)), blk)

\* number of fence-delimiter lines of a body
FenceLines(body) ==
    LET ls == SplitLines(body)
    IN  Cardinality({i \in DOMAIN ls : IsFenceDelimiter(ls[i])})

\* C29: for a key in both maps, when the existing body and the new body
\* each have an even number of fence-delimiter lines, so has the merged
\* body; an existing block sent again with new lines leaves the number as
\* it was.
MergeKeepsFencesBalanced ==
    pc = "merged" =>
        \A k \in BothKeys :
            (/\ FenceLines(Get(parsed_sections, k, <<>>)) % 2 = 0
             /\ FenceLines(Get(sections, k, <<>>)) % 2 = 0)
                => FenceLines(Get(merged_sections, k, <<>>)) % 2 = 0

-----------------------------------------------------------------------------
(* AgentsMdCreator.forward: the sections passed to compile_agents_md       *)

\* the keys of the two schemas
SchemaKeys ==
    {AGENTS_SECTION_HEADINGS[i][1] : i \in DOMAIN AGENTS_SECTION_HEADINGS}
        \cup {STRICT_AGENTS_SECTION_HEADINGS[i][1] :
                 i \in DOMAIN STRICT_AGENTS_SECTION_HEADINGS}

\* number of triple-backtick markers of a text, counted from the left
RECURSIVE Markers(_)
Markers(s) ==
    IF Len(s) < 3 THEN 0
    ELSE IF SubSeq(s, 1, 3) = <<BT, BT, BT>>
         THEN 1 + Markers(SubSeq(s, 4, Len(s)))
         ELSE Markers(Tail(s))

\* C26: the sections passed to compile_agents_md are those entries of the
\* extraction whose key is a schema key and whose value is a string, and
\* every body has an even number of triple-backtick markers.
SectionsSanitized ==
    pc = "compiled" =>
        /\ \E raw \in RawExtractions :
               Keys(sections)
                   = {raw[j].key : j \in {n \in DOMAIN raw :
                                             /\ raw[n].key \in SchemaKeys
                                             /\ raw[n].is_str}}
        /\ K("reasoning") \notin Keys(sections)
        /\ \A j \in DOMAIN sections : Markers(sections[j][2]) % 2 = 0

SectionsSanitizedWitness ==
    /\ pc = "compiled"
    /\ Keys(sections) = {K("tech_stack")}
    /\ Markers(Get(sections, K("tech_stack"), <<>>)) = 2

-----------------------------------------------------------------------------
(* compile_agents_md run again on its own output                           *)

\* C27: a run with the sections and style of the run before, on the
\* document that run returned, returns that document again.
RepeatedRunFixedPoint ==
    pc = "done" =>
        compile_agents_md(sections, repo_name, style, final_output)
            = final_output

-----------------------------------------------------------------------------
(* compile_agents_md and the sections of the existing document             *)

\* the lines of a document that are section headings: second-level markers
\* outside fenced code
HeadingLineAt(lines) ==
    {i \in DOMAIN lines : IsH2Marker(lines[i]) /\ ~BlockOpen(lines, i - 1)}

\* the non-blank lines of the section bodies of a document
SectionBodyLines(doc) ==
    LET lines == SplitLines(doc)
        heads == HeadingLineAt(lines)
    IN  {lines[i] : i \in {n \in DOMAIN lines :
                              /\ n \notin heads
                              /\ \E h \in heads : h < n
                              /\ Strip(lines[n]) # <<>>}}

\* the section headings of a document are pairwise different texts
HeadingsDiffer(doc) ==
    LET lines == SplitLines(doc)
    IN  \A i, j \in HeadingLineAt(lines) :
            i # j => Strip(lines[i]) # Strip(lines[j])

\* C28: when the headings of the existing document are pairwise different,
\* every non-blank line of its section bodies is a line of the output of
\* compile_agents_md.
NoExistingContentLost ==
    (pc = "done" /\ HeadingsDiffer(existing_content)) =>
        \A l \in SectionBodyLines(existing_content) :
            \E i \in DOMAIN SplitLines(final_output) :
                SplitLines(final_output)[i] = l

-----------------------------------------------------------------------------
(* main: what a run leaves on disk                                         *)

\* C30: a step of a run that does not end the run normally leaves every
\* AGENTS.md as it was, and the step that ends a run normally has written
\* the document of the run, after extraction and compile.
AllOrNothingRun ==
    [][/\ pc' # "ended" => disk' = disk
       /\ (pc # "ended" /\ pc' = "ended") =>
              /\ pc = "compiled"
              /\ disk'[ExpectedFolder(repo_name)].exists
              /\ prev_run'[repo_name].saved
              /\ disk'[ExpectedFolder(repo_name)].text
                     = prev_run'[repo_name].text
      ]_vars

====
